---- MODULE Spec2Model ----
(***************************************************************************)
(* Model of the streaming event-log parser of spark-map                    *)
(* (src/spark_map/core/parser.py) and of the validated metrics model it    *)
(* fills (src/spark_map/models/schemas.py).                                *)
(*                                                                         *)
(* One action consumes one line of the log: the step of the generator      *)
(* _read_events_streaming together with the branch of the loop of          *)
(* _extract_metrics_streaming that handles the yielded event.  Finish is   *)
(* the code after the loop (freeze, sort, totals, pydantic validation).    *)
(***************************************************************************)
EXTENDS Integers, Sequences, FiniteSets, TLC

(***************************************************************************)
(* Bounds.                                                                 *)
(* MaxLines bounds the length of the log.                                  *)
(* RESERVOIR_SIZE is _StageAggregator.RESERVOIR_SIZE (parser.py:175, 1000  *)
(* in the source) scaled down so that a reservoir overflows within         *)
(* MaxLines lines.                                                         *)
(* MaxFindings bounds the length of a FindingCollection filled by hand.    *)
(***************************************************************************)
MaxLines == 4

RESERVOIR_SIZE == 2

MaxFindings == 4

(***************************************************************************)
(* Python values.                                                          *)
(* None / Some(v): an Optional value (dict.get without default).           *)
(* Inf / Fin(v):   duration_min, which starts as float("inf").             *)
(* A value json.loads returns is an integer (int), a string (str), a       *)
(* boolean (bool), JsonNull (None), a function with a domain of strings    *)
(* (dict; EmptyDict is {}) or a non-empty tuple (list).  Floats and the    *)
(* empty list are not represented.                                         *)
(* Python's int is unbounded.  An int of magnitude below 2^31 is an        *)
(* integer of the model; a larger one is the set {[neg, m]} that holds its *)
(* sign and its magnitude m, a natural number written as the sequence of   *)
(* its digits in base 2^14, least significant first, without leading       *)
(* zeros (0 is <<>>).  Every int has one representation, and the           *)
(* arithmetic of the parser (IntAdd, IntSub, IntLess) works on both.       *)
(* An operator that models code which can raise returns Exception(name)    *)
(* on the arguments on which the code raises the exception `name`.         *)
(***************************************************************************)
None == <<>>

Some(v) == <<v>>

Inf == [inf |-> TRUE]

Fin(v) == [inf |-> FALSE, v |-> v]

EmptyDict == [k \in {} |-> 0]

\* the value json.loads returns for null
JsonNull == {}

Exception(name) == [exception |-> name]

\* r, a record or a dict, is an exception
Raises(r) == "exception" \in DOMAIN r

\* type(v).__name__
PyType(v) ==
    LET Printed(first) ==
            IF first = "\"" THEN "str"
            ELSE IF first \in {"T", "F"} THEN "bool"
            ELSE IF first = "{" THEN (IF v = {} THEN "NoneType" ELSE "int")
            ELSE IF first = "<" THEN (IF DOMAIN v = {} THEN "dict" ELSE "list")
            ELSE IF first \in {"[", "("} THEN "dict"
            ELSE "int"
    IN  Printed(SubSeq(ToString(v), 1, 1))

IsDict(v) == PyType(v) = "dict"

\* bool is a subclass of int: True is 1 and False is 0 in arithmetic,
\* comparisons, hashes and equality
IsNumber(v) == PyType(v) \in {"int", "bool"}

\* hash(v) is defined
Hashable(v) == PyType(v) \notin {"dict", "list"}

(***************************************************************************)
(* Arithmetic on ints of any size.  BigAdd, BigSub and BigLess work on     *)
(* magnitudes (sequences of digits in base 2^14); IntAdd, IntSub and       *)
(* IntLess are +, - and < on ints and bools as Python computes them.       *)
(***************************************************************************)
\* a + b + carry
RECURSIVE BigAdd(_, _, _)
BigAdd(a, b, carry) ==
    IF a = <<>> /\ b = <<>> THEN (IF carry = 0 THEN <<>> ELSE <<carry>>)
    ELSE <<((IF a = <<>> THEN 0 ELSE a[1]) + (IF b = <<>> THEN 0 ELSE b[1]) + carry) % 16384>>
             \o BigAdd(IF a = <<>> THEN <<>> ELSE Tail(a), IF b = <<>> THEN <<>> ELSE Tail(b),
                       ((IF a = <<>> THEN 0 ELSE a[1]) + (IF b = <<>> THEN 0 ELSE b[1]) + carry)
                           \div 16384)

\* a - b - borrow for a >= b + borrow; the leading digits may be zeros
RECURSIVE BigSub(_, _, _)
BigSub(a, b, borrow) ==
    IF a = <<>> THEN <<>>
    ELSE <<(a[1] - (IF b = <<>> THEN 0 ELSE b[1]) - borrow) % 16384>>
             \o BigSub(Tail(a), IF b = <<>> THEN <<>> ELSE Tail(b),
                       IF a[1] - (IF b = <<>> THEN 0 ELSE b[1]) - borrow < 0 THEN 1 ELSE 0)

\* a < b
RECURSIVE BigLess(_, _)
BigLess(a, b) ==
    IF Len(a) # Len(b) THEN Len(a) < Len(b)
    ELSE IF a = <<>> THEN FALSE
    ELSE IF a[Len(a)] # b[Len(b)] THEN a[Len(a)] < b[Len(b)]
    ELSE BigLess(SubSeq(a, 1, Len(a) - 1), SubSeq(b, 1, Len(b) - 1))

\* the sign and the magnitude of an int or a bool
SignMagnitude(v) ==
    LET RECURSIVE Digits(_)
        Digits(n) == IF n = 0 THEN <<>> ELSE <<n % 16384>> \o Digits(n \div 16384)
        Printed(first) ==
            IF first = "{" THEN CHOOSE x \in v : TRUE
            ELSE IF first \in {"T", "F"} THEN [neg |-> FALSE, m |-> IF v THEN <<1>> ELSE <<>>]
            ELSE [neg |-> v < 0, m |-> Digits(IF v < 0 THEN -v ELSE v)]
    IN  Printed(SubSeq(ToString(v), 1, 1))

\* the int of the given sign and magnitude, whose leading digits may be
\* zeros
PyInt(neg, m) ==
    LET RECURSIVE Norm(_)
        Norm(x) == IF x # <<>> /\ x[Len(x)] = 0 THEN Norm(SubSeq(x, 1, Len(x) - 1)) ELSE x
        RECURSIVE Small(_)
        Small(x) == IF x = <<>> THEN 0 ELSE x[1] + 16384 * Small(Tail(x))
        \* below 2^31 = 8 * 2^28
        Made(x) == IF Len(x) < 3 \/ (Len(x) = 3 /\ x[3] < 8)
                   THEN (IF neg THEN -Small(x) ELSE Small(x))
                   ELSE {[neg |-> neg, m |-> x]}
    IN  Made(Norm(m))

\* x + y for signs and magnitudes x and y, x - y when minus
SignedSum(x, y, opposite, less) ==
    PyInt(IF opposite /\ less THEN ~x.neg ELSE x.neg,
          IF opposite THEN BigSub(IF less THEN y.m ELSE x.m, IF less THEN x.m ELSE y.m, 0)
          ELSE BigAdd(x.m, y.m, 0))

\* a + b, and a - b when minus
IntSum(a, b, minus) ==
    \* below 2^30 in magnitude: the result is an integer of the model
    IF /\ SubSeq(ToString(a), 1, 1) \notin {"{", "T", "F"}
       /\ SubSeq(ToString(b), 1, 1) \notin {"{", "T", "F"}
       /\ -1073741824 < a /\ a < 1073741824
       /\ -1073741824 < b /\ b < 1073741824
    THEN (IF minus THEN a - b ELSE a + b)
    ELSE SignedSum(SignMagnitude(a), SignMagnitude(b),
                   (SignMagnitude(a).neg # SignMagnitude(b).neg) # minus,
                   BigLess(SignMagnitude(a).m, SignMagnitude(b).m))

\* a + b
IntAdd(a, b) == IntSum(a, b, FALSE)

\* a - b
IntSub(a, b) == IntSum(a, b, TRUE)

\* a < b
IntLess(a, b) ==
    LET Wide(x, y) ==
            IF x.neg # y.neg THEN x.neg
            ELSE BigLess(IF x.neg THEN y.m ELSE x.m, IF x.neg THEN x.m ELSE y.m)
    IN  IF /\ SubSeq(ToString(a), 1, 1) \notin {"{", "T", "F"}
           /\ SubSeq(ToString(b), 1, 1) \notin {"{", "T", "F"}
        THEN a < b
        ELSE Wide(SignMagnitude(a), SignMagnitude(b))

\* bool(v)
PyTruth(v) ==
    LET Typed(type) ==
            IF type = "int" THEN ToString(v) # "0"
            ELSE IF type = "bool" THEN v
            ELSE IF type = "str" THEN v # ""
            ELSE IF type = "NoneType" THEN FALSE
            ELSE IF type = "dict" THEN DOMAIN v # {}
            ELSE TRUE
    IN  Typed(PyType(v))

\* a == b
RECURSIVE PyEq(_, _)
PyEq(a, b) ==
    LET Typed(ta, tb) ==
            \* two ints are equal when they are written alike
            IF ta \in {"int", "bool"} /\ tb \in {"int", "bool"}
            THEN ToString(IF ta = "bool" THEN (IF a THEN 1 ELSE 0) ELSE a)
                 = ToString(IF tb = "bool" THEN (IF b THEN 1 ELSE 0) ELSE b)
            ELSE IF ta # tb THEN FALSE
            ELSE IF ta = "str" THEN a = b
            ELSE IF ta = "NoneType" THEN TRUE
            ELSE IF ta = "list"
            THEN Len(a) = Len(b) /\ \A i \in 1..Len(a) : PyEq(a[i], b[i])
            ELSE DOMAIN a = DOMAIN b /\ \A k \in DOMAIN a : PyEq(a[k], b[k])
    IN  Typed(PyType(a), PyType(b))

\* ord(c) for a character c up to U+00FF other than the grave accent, and
\* for U+1680
CharRank(c) ==
    LET upto  == "\t\n\f\r"
                 \o " !\"#$%&'()*+,-./0123456789:;<=>?@ABCDEFGHIJKLMNOPQRSTUVWXYZ[\\]^_"
        after == "abcdefghijklmnopqrstuvwxyz{|}~"
                 \o " ¡¢£¤¥¦§¨©ª«¬­®¯°±²³´µ¶·¸¹º»¼½¾¿ÀÁÂÃÄÅÆÇÈÉÊËÌÍÎÏÐÑÒÓÔÕÖ×ØÙÚÛÜÝÞßàáâãäåæçèéêëìíîïðñòóôõö÷øùúûüýþÿ"
        In(table, i) == SubSeq(table, i, i) = c
    IN  IF c = " " THEN 5760
        ELSE IF \E i \in 1..Len(upto) : In(upto, i)
        THEN CHOOSE i \in 1..Len(upto) : In(upto, i)
        ELSE 96 + (CHOOSE i \in 1..Len(after) : In(after, i))

\* a > b for strings of the characters of CharRank
RECURSIVE StrGreater(_, _)
StrGreater(a, b) ==
    IF a = "" THEN FALSE
    ELSE IF b = "" THEN TRUE
    ELSE IF SubSeq(a, 1, 1) # SubSeq(b, 1, 1)
    THEN CharRank(SubSeq(a, 1, 1)) > CharRank(SubSeq(b, 1, 1))
    ELSE StrGreater(SubSeq(a, 2, Len(a)), SubSeq(b, 2, Len(b)))

\* a > b: "True", "False" or "TypeError"
RECURSIVE PyGreater(_, _)
PyGreater(a, b) ==
    LET \* lists compare by their first differing position
        At(first) == IF first > Len(b) THEN "True" ELSE PyGreater(a[first], b[first])
        Differing(differ) ==
            IF differ = {} THEN "False"
            ELSE At(CHOOSE i \in differ : \A k \in differ : i <= k)
        Typed(ta, tb) ==
            IF ta \in {"int", "bool"} /\ tb \in {"int", "bool"}
            THEN (IF IntLess(b, a) THEN "True" ELSE "False")
            ELSE IF ta = "str" /\ tb = "str"
            THEN (IF StrGreater(a, b) THEN "True" ELSE "False")
            ELSE IF ta = "list" /\ tb = "list"
            THEN Differing({ i \in 1..Len(a) : i > Len(b) \/ ~PyEq(a[i], b[i]) })
            ELSE "TypeError"
    IN  Typed(PyType(a), PyType(b))

\* d.get(k, default)
Get(d, k, default) == IF k \in DOMAIN d THEN d[k] ELSE default

\* d.get(k) as an Optional: None when the key is missing or holds null
GetOpt(d, k) == IF k \in DOMAIN d /\ PyType(d[k]) # "NoneType" THEN Some(d[k]) ELSE None

\* truth value of an Optional: None is falsy
Truthy(x) == x # None /\ PyTruth(x[1])

Min(a, b) == IF a <= b THEN a ELSE b

Max(a, b) == IF a >= b THEN a ELSE b

\* variant of MinInf: the minimum is taken over the finite values only, so
\* the initial float("inf") is never replaced
MinInf_StaysInf(m, d) == IF m.inf THEN m ELSE Fin(IF IntLess(d, m.v) THEN d ELSE m.v)

\* min(self.duration_min, duration) where duration_min may be float("inf")
MinInf(m, d) == IF m.inf THEN Fin(d) ELSE Fin(IF IntLess(d, m.v) THEN d ELSE m.v)

\* sum(s)
RECURSIVE SumSeq(_)
SumSeq(s) == IF s = <<>> THEN 0 ELSE IntAdd(SumSeq(SubSeq(s, 1, Len(s) - 1)), s[Len(s)])

(***************************************************************************)
(* pydantic (lax mode): what a field of the given annotation makes of an   *)
(* argument.  Each operator returns Some(value stored) or None when the    *)
(* constructor raises ValidationError.                                     *)
(***************************************************************************)
\* what a field annotated int makes of a string: surrounding whitespace is
\* trimmed, one sign is set aside, leading zeros (and the underscores among
\* them) are skipped, a fraction of zeros is dropped, single underscores
\* inside the text are removed, and what remains is read as the integer
\* -?(0|[1-9][0-9]*) if it has no more than 4300 characters.  The leading
\* zeros are skipped up to a minus sign as well, so that "0-1" is read as -1.
\* Whitespace is what Unicode calls White_Space: the characters U+0009 to
\* U+000D, U+0020, U+0085, U+00A0 and U+1680 of IsSpace, and U+2000 to
\* U+200A, U+2028, U+2029, U+202F, U+205F and U+3000, which a string of the
\* model cannot hold.
StrAsInt(str) ==
    LET At(t, i)    == SubSeq(t, i, i)
        From(t, i)  == SubSeq(t, i, Len(t))
        IsSpace(c)  == c \in {" ", "\t", "\n", "\r", "\f", "", "", " ", " "}
        NonZero(c)  == c \in {"1", "2", "3", "4", "5", "6", "7", "8", "9"}
        DigitOf(c)  == CHOOSE d \in 0..9 : ToString(d) = c
        RECURSIVE LTrim(_)
        LTrim(t)    == IF t # "" /\ IsSpace(At(t, 1)) THEN LTrim(From(t, 2)) ELSE t
        RECURSIVE RTrim(_)
        RTrim(t)    == IF t # "" /\ IsSpace(At(t, Len(t)))
                       THEN RTrim(SubSeq(t, 1, Len(t) - 1)) ELSE t
        \* the digits of an integer: no leading zero but in "0"
        Digits(t) ==
            /\ t # ""
            /\ \A i \in 1..Len(t) : At(t, i) = "0" \/ NonZero(At(t, i))
            /\ At(t, 1) = "0" => Len(t) = 1
        \* the text of an integer, as an Optional: -?(0|[1-9][0-9]*) in no
        \* more than 4300 characters
        Integer(t) ==
            IF Len(t) <= 4300 /\ Digits(IF t # "" /\ At(t, 1) = "-" THEN From(t, 2) ELSE t)
            THEN Some(t) ELSE None
        RECURSIVE Without(_)
        Without(t) ==
            IF t = "" THEN ""
            ELSE IF At(t, 1) = "_" THEN Without(From(t, 2))
            ELSE At(t, 1) \o Without(From(t, 2))
        \* underscores are removed unless one leads, one trails or two are
        \* adjacent
        StripUnderscores(t) ==
            IF \/ t = ""
               \/ At(t, 1) = "_"
               \/ At(t, Len(t)) = "_"
               \/ \E i \in 1..(Len(t) - 1) : At(t, i) = "_" /\ At(t, i + 1) = "_"
            THEN t
            ELSE Without(t)
        \* a fraction of one or more zeros is dropped with its point
        Pointed(t, point) ==
            IF point < Len(t) /\ \A k \in (point + 1)..Len(t) : At(t, k) = "0"
            THEN SubSeq(t, 1, point - 1)
            ELSE t
        StripDecimalZeros(t, dots) ==
            IF dots = {} THEN t
            ELSE Pointed(t, CHOOSE i \in dots : \A k \in dots : i <= k)
        \* the text left once the leading zeros are skipped, as an Optional:
        \* from the first character after a leading "0" that is neither "0"
        \* nor "_"
        Stopped(t, stop) ==
            IF NonZero(At(t, stop)) \/ At(t, stop) = "-" THEN Some(From(t, stop))
            ELSE IF At(t, stop) = "." THEN Some(From(t, stop - 1))
            ELSE None
        Zeros(t, stops) ==
            IF stops = {} THEN Some(At(t, Len(t)))
            ELSE Stopped(t, CHOOSE i \in stops : \A k \in stops : i <= k)
        StripLeadingZeros(t) ==
            IF t = "" THEN None
            ELSE IF NonZero(At(t, 1)) THEN Some(t)
            ELSE IF At(t, 1) # "0" THEN None
            ELSE Zeros(t, { i \in 2..Len(t) : At(t, i) \notin {"0", "_"} })
        Undotted(rest) ==
            StripDecimalZeros(rest, { i \in 1..Len(rest) : At(rest, i) = "." })
        Cleaned(negative, rest) ==
            IF rest = None THEN None
            ELSE Integer((IF negative THEN "-" ELSE "") \o StripUnderscores(Undotted(rest[1])))
        Signed(negative, t) ==
            IF negative /\ Len(t) > 1 /\ At(t, 2) \in {"+", "-"} THEN None
            ELSE Cleaned(negative, StripLeadingZeros(IF negative THEN From(t, 2) ELSE t))
        Minus(t) == Signed(t # "" /\ At(t, 1) = "-", t)
        Plus(plus, t) ==
            IF plus /\ Len(t) > 1 /\ At(t, 2) = "-" THEN None
            ELSE Minus(IF plus THEN From(t, 2) ELSE t)
        Trimmed(t) == Plus(t # "" /\ At(t, 1) = "+", t)
        \* the magnitude 10 * m + carry
        RECURSIVE Scaled(_, _)
        Scaled(m, carry) ==
            IF m = <<>> THEN (IF carry = 0 THEN <<>> ELSE <<carry>>)
            ELSE <<(10 * m[1] + carry) % 16384>>
                     \o Scaled(Tail(m), (10 * m[1] + carry) \div 16384)
        \* the magnitude of m followed by the digits of t; the length of m is
        \* taken so that m is computed before the next digit is read.  One
        \* level of recursion is spent per digit: texts of up to 70 digits are
        \* evaluated within the default Java stack, longer ones are not.
        RECURSIVE Value(_, _)
        Value(t, m) ==
            IF t = "" \/ Len(m) < 0 THEN m
            ELSE Value(From(t, 2), Scaled(m, DigitOf(At(t, 1))))
        \* int(text) for the text of an integer
        Parsed(text) ==
            IF text = None THEN None
            ELSE Some(PyInt(At(text[1], 1) = "-",
                            Value(IF At(text[1], 1) = "-" THEN From(text[1], 2) ELSE text[1], <<>>)))
    IN  Parsed(Trimmed(RTrim(LTrim(str))))

\* a field annotated int
AsInt(v) ==
    LET Typed(type) ==
            IF type = "int" THEN Some(v)
            ELSE IF type = "bool" THEN Some(IF v THEN 1 ELSE 0)
            ELSE IF type = "str" THEN StrAsInt(v)
            ELSE None
    IN  Typed(PyType(v))

\* a field annotated bool: a bool, the integers 0 and 1, and the strings
\* pydantic reads as booleans whatever their case
AsBool(v) ==
    LET type     == PyType(v)
        upper    == "ABCDEFGHIJKLMNOPQRSTUVWXYZ"
        lower    == "abcdefghijklmnopqrstuvwxyz"
        Lower(c) == IF \E i \in 1..26 : SubSeq(upper, i, i) = c
                    THEN LET i == CHOOSE i \in 1..26 : SubSeq(upper, i, i) = c
                         IN  SubSeq(lower, i, i)
                    ELSE c
        RECURSIVE LowerAll(_)
        LowerAll(t) == IF t = "" THEN ""
                       ELSE Lower(SubSeq(t, 1, 1)) \o LowerAll(SubSeq(t, 2, Len(t)))
    IN  IF type = "bool" THEN Some(v)
        ELSE IF type = "int"
        THEN (IF ToString(v) \in {"0", "1"} THEN Some(ToString(v) = "1") ELSE None)
        ELSE IF type = "str"
        THEN (IF LowerAll(v) \in {"1", "on", "t", "true", "y", "yes"} THEN Some(TRUE)
              ELSE IF LowerAll(v) \in {"0", "off", "f", "false", "n", "no"} THEN Some(FALSE)
              ELSE None)
        ELSE None

\* a field of the given annotation: "int", "int >= 0" (an int with
\* Field(ge=0)), "str", "bool", or "int | None", whose argument and stored
\* value are Optionals
Field(annotation, v) ==
    LET Constrained(int) ==
            IF int = None THEN None
            ELSE IF annotation = "int | None" THEN Some(int)
            ELSE IF annotation = "int >= 0" /\ IntLess(int[1], 0) THEN None
            ELSE int
        \* a field annotated str takes a str only
        Str(type) == IF type = "str" THEN Some(v) ELSE None
    IN  IF annotation = "str" THEN Str(PyType(v))
        ELSE IF annotation = "bool" THEN AsBool(v)
        ELSE IF annotation = "int | None" /\ v = None THEN Some(None)
        ELSE Constrained(AsInt(IF annotation = "int | None" THEN v[1] ELSE v))

(***************************************************************************)
(* Lines of the file.  A line is [ws, kind, value]: ws says whether the    *)
(* text is surrounded by whitespace, kind is what remains after strip():   *)
(*   "empty"   nothing                                                     *)
(*   "garbage" text on which json.loads raises JSONDecodeError             *)
(*   "raises"  text on which json.loads raises the exception `value`,      *)
(*             which is not a JSONDecodeError: "ValueError" for an         *)
(*             integer of more digits than sys.get_int_max_str_digits()    *)
(*             (4300), "RecursionError" for arrays nested deeper than the  *)
(*             recursion limit                                             *)
(*   "object"  a JSON object, decoded to the dict `value`                  *)
(*   "scalar"  JSON that is not an object (array, number, string),         *)
(*             decoded to `value`                                          *)
(***************************************************************************)
Strip(line) == [line EXCEPT !.ws = FALSE]

\* json.loads(line) raises JSONDecodeError
JSONDecodeError(text) == text.kind = "garbage"

\* what one line makes the generator do: <<>> (nothing is yielded and the
\* generator moves on), <<event>> (the event is yielded), or <<exception>>
\* (the exception leaves the generator: parser.py:71 catches
\* JSONDecodeError only)
ReadEventsStreamingLine(line) ==
    LET text == Strip(line)
    IN  IF text.kind = "empty" THEN <<>>
        ELSE IF JSONDecodeError(text) THEN <<>>
        ELSE IF text.kind = "raises" THEN << Exception(text.value) >>
        ELSE << [isdict |-> text.kind = "object", value |-> text.value] >>

(***************************************************************************)
(* _StageAggregator                                                        *)
(***************************************************************************)
NewStageAggregator(stage_id, stage_name, expected_tasks, submission_time_ms) ==
    [ stage_id             |-> stage_id,
      stage_name           |-> stage_name,
      expected_tasks       |-> expected_tasks,
      submission_time_ms   |-> submission_time_ms,
      completion_time_ms   |-> None,
      num_failed_tasks     |-> 0,
      task_count           |-> 0,
      duration_min         |-> Inf,
      duration_max         |-> 0,
      duration_sum         |-> 0,
      duration_reservoir   |-> <<>>,
      reservoir_count      |-> 0,
      input_bytes          |-> 0,
      input_records        |-> 0,
      output_bytes         |-> 0,
      output_records       |-> 0,
      shuffle_read_bytes   |-> 0,
      shuffle_write_bytes  |-> 0,
      memory_bytes_spilled |-> 0,
      disk_bytes_spilled   |-> 0 ]

\* duration = finish - launch if finish > launch else 0, for a task_info
\* on which the expression does not raise
TaskDuration(task_info) ==
    LET launch == Get(task_info, "Launch Time", 0)
        finish == Get(task_info, "Finish Time", 0)
    IN  IF PyGreater(finish, launch) = "True" THEN IntSub(finish, launch) ELSE 0

\* variant of ReservoirAdd: every observation is appended
ReservoirAdd_Unbounded(reservoir, duration, j) == Append(reservoir, duration)

\* the reservoir after one observation; j is the value of
\* random.randint(0, reservoir_count - 1), drawn only when the reservoir is full
ReservoirAdd(reservoir, duration, j) ==
    IF Len(reservoir) < RESERVOIR_SIZE
    THEN Append(reservoir, duration)
    ELSE IF j < RESERVOIR_SIZE
         THEN [reservoir EXCEPT ![j + 1] = duration]
         ELSE reservoir

\* the values random.randint(0, count - 1) can return for the next observation
\* of agg; {0} when add_task draws nothing
RandomDraws(agg) ==
    IF Len(agg.duration_reservoir) < RESERVOIR_SIZE
    THEN {0}
    ELSE 0 .. agg.reservoir_count

\* variant of AddTask: a failed task is counted and then returns before the
\* duration and byte aggregates
AddTask_FailedSkipsSums(agg, task_info, task_metrics, j) ==
    IF PyTruth(Get(task_info, "Failed", FALSE))
    THEN [ agg EXCEPT !.task_count = @ + 1, !.num_failed_tasks = IntAdd(@, 1) ]
    ELSE LET duration == TaskDuration(task_info)
         IN  [ agg EXCEPT
                 !.task_count          = @ + 1,
                 !.duration_min        = MinInf(@, duration),
                 !.duration_max        = IF IntLess(@, duration) THEN duration ELSE @,
                 !.duration_sum        = IntAdd(@, duration),
                 !.reservoir_count     = @ + 1,
                 !.duration_reservoir  = ReservoirAdd(@, duration, j),
                 !.input_bytes         =
                     IntAdd(@, Get(Get(task_metrics, "Input Metrics", EmptyDict), "Bytes Read", 0)),
                 !.shuffle_write_bytes =
                     IntAdd(@, Get(Get(task_metrics, "Shuffle Write Metrics", EmptyDict),
                                   "Shuffle Bytes Written", 0)) ]

\* add_task: the aggregator after the call, or the exception that leaves it.
\* x.get raises AttributeError when x is not a dict; >, - and += raise
\* TypeError on operands that are not numbers (two strings or two lists can
\* be compared, and subtracted they raise).
AddTask(agg, task_info, task_metrics, j) ==
    LET launch        == Get(task_info, "Launch Time", 0)
        finish        == Get(task_info, "Finish Time", 0)
        input_m       == Get(task_metrics, "Input Metrics", EmptyDict)
        output_m      == Get(task_metrics, "Output Metrics", EmptyDict)
        shuffle_read  == Get(task_metrics, "Shuffle Read Metrics", EmptyDict)
        shuffle_write == Get(task_metrics, "Shuffle Write Metrics", EmptyDict)
        failed        == PyTruth(Get(task_info, "Failed", FALSE))
        \* later is finish > launch
        Timed(later, duration) ==
            IF later = "TypeError" THEN Exception("TypeError")
            ELSE IF later = "True" /\ ~(IsNumber(finish) /\ IsNumber(launch))
            THEN Exception("TypeError")
            ELSE IF ~IsDict(task_metrics) THEN Exception("AttributeError")
            ELSE IF ~IsDict(input_m) THEN Exception("AttributeError")
            ELSE IF ~IsNumber(Get(input_m, "Bytes Read", 0)) THEN Exception("TypeError")
            ELSE IF ~IsNumber(Get(input_m, "Records Read", 0)) THEN Exception("TypeError")
            ELSE IF ~IsDict(output_m) THEN Exception("AttributeError")
            ELSE IF ~IsNumber(Get(output_m, "Bytes Written", 0)) THEN Exception("TypeError")
            ELSE IF ~IsNumber(Get(output_m, "Records Written", 0)) THEN Exception("TypeError")
            ELSE IF ~IsDict(shuffle_read) THEN Exception("AttributeError")
            ELSE IF ~(/\ IsNumber(Get(shuffle_read, "Remote Bytes Read", 0))
                      /\ IsNumber(Get(shuffle_read, "Local Bytes Read", 0)))
            THEN Exception("TypeError")
            ELSE IF ~IsDict(shuffle_write) THEN Exception("AttributeError")
            ELSE IF ~IsNumber(Get(shuffle_write, "Shuffle Bytes Written", 0))
            THEN Exception("TypeError")
            ELSE IF ~IsNumber(Get(task_metrics, "Memory Bytes Spilled", 0))
            THEN Exception("TypeError")
            ELSE IF ~IsNumber(Get(task_metrics, "Disk Bytes Spilled", 0))
            THEN Exception("TypeError")
            ELSE IF failed /\ ~IsNumber(agg.num_failed_tasks) THEN Exception("TypeError")
            ELSE
              [ agg EXCEPT
                !.task_count           = @ + 1,
                !.duration_min         = MinInf(@, duration),
                !.duration_max         = IF IntLess(@, duration) THEN duration ELSE @,
                !.duration_sum         = IntAdd(@, duration),
                !.reservoir_count      = @ + 1,
                !.duration_reservoir   = ReservoirAdd(@, duration, j),
                !.input_bytes          = IntAdd(@, Get(input_m, "Bytes Read", 0)),
                !.input_records        = IntAdd(@, Get(input_m, "Records Read", 0)),
                !.output_bytes         = IntAdd(@, Get(output_m, "Bytes Written", 0)),
                !.output_records       = IntAdd(@, Get(output_m, "Records Written", 0)),
                !.shuffle_read_bytes   =
                    IntAdd(@, IntAdd(Get(shuffle_read, "Remote Bytes Read", 0),
                                     Get(shuffle_read, "Local Bytes Read", 0))),
                !.shuffle_write_bytes  = IntAdd(@, Get(shuffle_write, "Shuffle Bytes Written", 0)),
                !.memory_bytes_spilled = IntAdd(@, Get(task_metrics, "Memory Bytes Spilled", 0)),
                !.disk_bytes_spilled   = IntAdd(@, Get(task_metrics, "Disk Bytes Spilled", 0)),
                !.num_failed_tasks     = IF failed THEN IntAdd(@, 1) ELSE @ ]
    IN  IF ~IsDict(task_info) THEN Exception("AttributeError")
        ELSE Timed(PyGreater(finish, launch), TaskDuration(task_info))

(***************************************************************************)
(* _percentile and the freeze of an aggregator.                            *)
(* _percentile works in IEEE 754 binary64 and so does the model.  A        *)
(* natural number of any size is the sequence of its digits in base 2^14,  *)
(* least significant first, without leading zeros (0 is <<>>).  A float is *)
(* [neg, m, e]: the number (-1)^neg * m * 2^e, m a natural number of at    *)
(* most 53 bits (or 2^53).  Every operation computes the exact result and  *)
(* rounds it to 53 significant bits, ties to even, as the hardware does.   *)
(* Sorted data 7, 107 and p = 99 gives 105.99999999999999, which int()     *)
(* truncates to 105.                                                       *)
(***************************************************************************)
\* sorted(seq): insertion of x in an ascending sequence, then the sort
RECURSIVE InsertSorted(_, _)
InsertSorted(x, s) ==
    IF s = <<>> THEN <<x>>
    ELSE IF IntLess(x, Head(s)) THEN <<x>> \o s
    ELSE <<Head(s)>> \o InsertSorted(x, Tail(s))

RECURSIVE Sorted(_)
Sorted(s) == IF s = <<>> THEN <<>> ELSE InsertSorted(s[Len(s)], Sorted(SubSeq(s, 1, Len(s) - 1)))

\* m * 2^e rounded to 53 significant bits, ties to even: the double
\* [neg, m, e].  sticky says that the exact value is above m * 2^e by less
\* than 2^e.  A value that rounds to 2^1024 or more is an infinity,
\* [neg, inf].
Round53(neg, m, e, sticky) ==
    LET RECURSIVE Pow2(_)
        Pow2(r) == IF r = 0 THEN 1 ELSE 2 * Pow2(r - 1)

        RECURSIVE BigNorm(_)
        BigNorm(a) ==
            IF a # <<>> /\ a[Len(a)] = 0 THEN BigNorm(SubSeq(a, 1, Len(a) - 1)) ELSE a

        \* floor(a / 2^s)
        BigShr(a, s) ==
            LET q == s \div 14
                r == s % 14
                n == Len(a) - q
                d(i) == IF i <= Len(a) THEN a[i] ELSE 0
            IN  IF n <= 0 THEN <<>>
                ELSE BigNorm([i \in 1..n |->
                                (d(i + q) \div Pow2(r)) + (d(i + q + 1) % Pow2(r)) * Pow2(14 - r)])

        \* the number of bits of a
        RECURSIVE IntBitLen(_)
        IntBitLen(n) == IF n = 0 THEN 0 ELSE 1 + IntBitLen(n \div 2)

        BigBitLen(a) == IF a = <<>> THEN 0 ELSE 14 * (Len(a) - 1) + IntBitLen(a[Len(a)])

        \* bit i of a (bit 0 is the least significant)
        BigBit(a, i) ==
            IF (i \div 14) + 1 > Len(a) THEN 0
            ELSE (a[(i \div 14) + 1] \div Pow2(i % 14)) % 2

        \* a is a multiple of 2^t
        BigLowZero(a, t) ==
            /\ \A i \in 1..Len(a) : i <= t \div 14 => a[i] = 0
            /\ (t \div 14) + 1 <= Len(a) => a[(t \div 14) + 1] % Pow2(t % 14) = 0

        Finite(x) ==
            IF BigBitLen(x.m) + x.e > 1024 THEN [neg |-> neg, inf |-> TRUE] ELSE x

        Cut(s, t) ==
            Finite([ neg |-> neg,
                     m   |-> IF /\ BigBit(m, s - 1) = 1
                                /\ (sticky \/ ~BigLowZero(m, s - 1) \/ BigBit(t, 0) = 1)
                             THEN BigAdd(t, <<1>>, 0) ELSE t,
                     e   |-> e + s ])

        Excess(s) ==
            IF s <= 0 THEN Finite([neg |-> neg, m |-> m, e |-> e]) ELSE Cut(s, BigShr(m, s))
    IN  IF m = <<>> THEN [neg |-> FALSE, m |-> <<>>, e |-> 0] ELSE Excess(BigBitLen(m) - 53)

\* float(n) for an int n: the nearest double, or OverflowError
FloatOfInt(n) ==
    LET Rounded(x) == IF "inf" \in DOMAIN x THEN Exception("OverflowError") ELSE x
        Signed(x)  == Rounded(Round53(x.neg, x.m, 0, FALSE))
    IN  Signed(SignMagnitude(n))

\* int(x) for a float x: truncation towards zero, or OverflowError on an
\* infinity
FloatInt(x) ==
    LET RECURSIVE Pow2(_)
        Pow2(r) == IF r = 0 THEN 1 ELSE 2 * Pow2(r - 1)
        \* a * d for a digit d
        RECURSIVE BigMulDigit(_, _, _)
        BigMulDigit(a, d, carry) ==
            IF a = <<>> THEN (IF carry = 0 THEN <<>> ELSE <<carry>>)
            ELSE <<(a[1] * d + carry) % 16384>>
                   \o BigMulDigit(Tail(a), d, (a[1] * d + carry) \div 16384)
        \* a * 2^s
        BigShl(a, s) == [i \in 1..(s \div 14) |-> 0] \o BigMulDigit(a, Pow2(s % 14), 0)
        \* floor(a / 2^s)
        BigShr(a, s) ==
            LET q == s \div 14
                r == s % 14
                d(i) == IF i <= Len(a) THEN a[i] ELSE 0
            IN  [i \in 1..(Len(a) - q) |->
                   (d(i + q) \div Pow2(r)) + (d(i + q + 1) % Pow2(r)) * Pow2(14 - r)]
    IN  IF "inf" \in DOMAIN x THEN Exception("OverflowError")
        ELSE PyInt(x.neg, IF x.e >= 0 THEN BigShl(x.m, x.e) ELSE BigShr(x.m, -x.e))

\* _percentile(sorted_data, p) for an int p: the float returned, or the
\* OverflowError of an int too large for a float
Percentile(sorted_data, p) ==
    LET
        RECURSIVE Pow2(_)
        Pow2(r) == IF r = 0 THEN 1 ELSE 2 * Pow2(r - 1)

        RECURSIVE BigNorm(_)
        BigNorm(a) ==
            IF a = <<>> THEN <<>>
            ELSE IF a[Len(a)] = 0 THEN BigNorm(SubSeq(a, 1, Len(a) - 1))
            ELSE a

        RECURSIVE IntOfBig(_)
        IntOfBig(a) == IF a = <<>> THEN 0 ELSE a[1] + 16384 * IntOfBig(Tail(a))

        \* a * d for a digit d
        RECURSIVE BigMulDigit(_, _, _)
        BigMulDigit(a, d, carry) ==
            IF a = <<>> THEN (IF carry = 0 THEN <<>> ELSE <<carry>>)
            ELSE LET x == a[1] * d + carry
                 IN  <<x % 16384>> \o BigMulDigit(Tail(a), d, x \div 16384)

        \* a * 2^(14 * q)
        BigShiftLimbs(a, q) == IF a = <<>> THEN <<>> ELSE [i \in 1..q |-> 0] \o a

        RECURSIVE BigMul(_, _)
        BigMul(a, b) ==
            IF a = <<>> \/ b = <<>> THEN <<>>
            ELSE BigAdd(BigNorm(BigMulDigit(b, a[1], 0)), BigShiftLimbs(BigMul(Tail(a), b), 1), 0)

        \* a * 2^s
        BigShl(a, s) ==
            BigShiftLimbs(BigNorm(BigMulDigit(a, Pow2(s % 14), 0)), s \div 14)

        \* floor(a / d) and a mod d for a digit d > 0, most significant digit first
        RECURSIVE BigDivDigit(_, _)
        BigDivDigit(a, d) ==
            IF a = <<>> THEN [q |-> <<>>, r |-> 0]
            ELSE LET high == BigDivDigit(Tail(a), d)
                     x    == high.r * 16384 + a[1]
                 IN  [q |-> BigNorm(<<x \div d>> \o high.q), r |-> x % d]

        \* The exact value of an operation on doubles a and b: sign, magnitude
        \* m * 2^e, and sticky (the true value is above it by less than 2^e).
        Product(a, b) ==
            [neg |-> a.neg # b.neg, m |-> BigMul(a.m, b.m), e |-> a.e + b.e, sticky |-> FALSE]

        Sum(a, b) ==
            LET Ordered(e, am, bm, less) ==
                    [ neg    |-> IF a.neg = b.neg \/ ~less THEN a.neg ELSE b.neg,
                      m      |-> IF a.neg = b.neg THEN BigAdd(am, bm, 0)
                                 ELSE BigNorm(BigSub(IF less THEN bm ELSE am,
                                                    IF less THEN am ELSE bm, 0)),
                      e      |-> e,
                      sticky |-> FALSE ]
                Aligned(e, am, bm) == Ordered(e, am, bm, BigLess(am, bm))
                Scaled(e) == Aligned(e, BigShl(a.m, a.e - e), BigShl(b.m, b.e - e))
            IN  Scaled(IF a.e <= b.e THEN a.e ELSE b.e)

        \* a / b for ints a >= 0 and 0 < b < 2^14: 70 bits of the quotient
        Quotient(a, b) ==
            LET Divided(qr) == [neg |-> FALSE, m |-> qr.q, e |-> -70, sticky |-> qr.r # 0]
            IN  Divided(BigDivDigit(BigShl(a.m, 70), IntOfBig(b.m)))

        \* the double an expression of doubles evaluates to, every operation
        \* rounded
        RECURSIVE Value(_)
        Value(x) ==
            LET Rounded(exact) == Round53(exact.neg, exact.m, exact.e, exact.sticky)
                Applied(a, b) ==
                    Rounded(IF x.op = "*" THEN Product(a, b)
                            ELSE IF x.op = "/" THEN Quotient(a, b)
                            ELSE Sum(a, IF x.op = "-"
                                        THEN [b EXCEPT !.neg = (b.m # <<>>) /\ ~@] ELSE b))
            IN  IF x.op = "float" THEN x.value
                ELSE Applied(Value(x.left), Value(x.right))

        Float(x) == [op |-> "float", value |-> x]

        \* an int of the function itself (a length, a rank, p, 100)
        Whole(n) == [op |-> "float", value |-> FloatOfInt(n)]

        Times(l, r) == [op |-> "*", left |-> l, right |-> r]

        Minus(l, r) == [op |-> "-", left |-> l, right |-> r]

        \* lines 505-507; low and high are float(sorted_data[f]) and
        \* float(sorted_data[c]).  The products are no larger than the data, so
        \* only the sum can be an infinity.
        Between(k, f, c, low, high) ==
            IF Raises(low) THEN low
            ELSE IF f = c THEN low
            ELSE IF Raises(high) THEN high
            ELSE Value([ op    |-> "+",
                         left  |-> Times(Float(low), Minus(Whole(c), Float(k))),
                         right |-> Times(Float(high), Minus(Float(k), Whole(f))) ])

        \* line 504
        Floored(k, f) ==
            Between(k, f, IF f + 1 < Len(sorted_data) THEN f + 1 ELSE f,
                    FloatOfInt(sorted_data[f + 1]),
                    FloatOfInt(sorted_data[IF f + 1 < Len(sorted_data) THEN f + 2 ELSE f + 1]))

        \* line 503
        Ranked(k) == Floored(k, FloatInt(k))
    IN
        \* lines 500-502
        IF sorted_data = <<>> THEN [neg |-> FALSE, m |-> <<>>, e |-> 0]
        ELSE Ranked(Value(Times(Whole(Len(sorted_data) - 1),
                                [op |-> "/", left |-> Whole(p), right |-> Whole(100)])))

\* StageMetrics(**kwargs): the object pydantic builds, its fields converted
\* to their annotated types, or ValidationError.  A missing argument takes
\* its default; stage_id and num_tasks have none.
StageMetrics(kwargs) ==
    LET defaults ==
            [ stage_name              |-> "",
              submission_time_ms      |-> None,
              completion_time_ms      |-> None,
              duration_ms             |-> 0,
              task_duration_min_ms    |-> 0,
              task_duration_max_ms    |-> 0,
              task_duration_median_ms |-> 0,
              task_duration_p75_ms    |-> 0,
              task_duration_p90_ms    |-> 0,
              task_duration_p99_ms    |-> 0,
              input_bytes             |-> 0,
              input_records           |-> 0,
              output_bytes            |-> 0,
              output_records          |-> 0,
              shuffle_read_bytes      |-> 0,
              shuffle_write_bytes     |-> 0,
              memory_bytes_spilled    |-> 0,
              disk_bytes_spilled      |-> 0,
              num_failed_tasks        |-> 0 ]
        fields == DOMAIN defaults \cup {"stage_id", "num_tasks"}
        given  == fields \cap DOMAIN kwargs
        annotation(name) ==
            IF name = "stage_id" THEN "int"
            ELSE IF name = "stage_name" THEN "str"
            ELSE IF name \in {"submission_time_ms", "completion_time_ms"} THEN "int | None"
            ELSE "int >= 0"
        Built(stored) ==
            IF \/ {"stage_id", "num_tasks"} \ given # {}
               \/ \E name \in given : stored[name] = None
            THEN Exception("ValidationError")
            ELSE [ name \in fields |->
                     IF name \in given THEN stored[name][1] ELSE defaults[name] ]
    IN  Built([ name \in given |-> Field(annotation(name), kwargs[name]) ])

\* to_stage_metrics: the StageMetrics of the aggregator, or the exception
\* that leaves the method (OverflowError from a percentile of durations too
\* large for a float, TypeError from the subtraction of timestamps that are
\* not numbers, ValidationError from the constructor)
ToStageMetrics(agg) ==
    LET Frozen(pct, subtract) ==
            IF \E p \in DOMAIN pct : pct[p] = None THEN Exception("OverflowError")
            ELSE IF subtract /\ ~(/\ IsNumber(agg.completion_time_ms[1])
                                  /\ IsNumber(agg.submission_time_ms[1]))
            THEN Exception("TypeError")
            ELSE StageMetrics(
                   [ stage_id                |-> agg.stage_id,
                     stage_name              |-> agg.stage_name,
                     num_tasks               |-> agg.task_count,
                     submission_time_ms      |-> agg.submission_time_ms,
                     completion_time_ms      |-> agg.completion_time_ms,
                     duration_ms             |->
                         IF subtract
                         THEN IntSub(agg.completion_time_ms[1], agg.submission_time_ms[1])
                         ELSE 0,
                     task_duration_min_ms    |->
                         IF agg.duration_min.inf THEN 0 ELSE agg.duration_min.v,
                     task_duration_max_ms    |-> agg.duration_max,
                     task_duration_median_ms |-> pct[50][1],
                     task_duration_p75_ms    |-> pct[75][1],
                     task_duration_p90_ms    |-> pct[90][1],
                     task_duration_p99_ms    |-> pct[99][1],
                     input_bytes             |-> agg.input_bytes,
                     input_records           |-> agg.input_records,
                     output_bytes            |-> agg.output_bytes,
                     output_records          |-> agg.output_records,
                     shuffle_read_bytes      |-> agg.shuffle_read_bytes,
                     shuffle_write_bytes     |-> agg.shuffle_write_bytes,
                     memory_bytes_spilled    |-> agg.memory_bytes_spilled,
                     disk_bytes_spilled      |-> agg.disk_bytes_spilled,
                     num_failed_tasks        |-> agg.num_failed_tasks ])
        \* int(_percentile(sorted_durations, p)) if sorted_durations else 0
        \* int(x) as an Optional: None when x is the OverflowError of
        \* _percentile or an infinity, on which int() raises OverflowError
        Truncated(x) == IF Raises(x) \/ "inf" \in DOMAIN x THEN None ELSE Some(FloatInt(x))
        Percentiles(sorted_durations) ==
            Frozen([ p \in {50, 75, 90, 99} |->
                       IF sorted_durations # <<>>
                       THEN Truncated(Percentile(sorted_durations, p)) ELSE Some(0) ],
                   Truthy(agg.submission_time_ms) /\ Truthy(agg.completion_time_ms))
    IN  Percentiles(Sorted(agg.duration_reservoir))

(***************************************************************************)
(* The dict `stages`: a sequence of aggregators in insertion order, at     *)
(* most one per stage id (a Python dict keeps the position of a key that   *)
(* is assigned again).  The set `executors` is likewise the sequence of    *)
(* its elements in insertion order.  Keys and elements are compared with   *)
(* ==, and a dict or a list, which has no hash, is neither.                *)
(***************************************************************************)
\* stage_id in stages
HasStage(stages, stage_id) ==
    IF ~Hashable(stage_id) THEN Exception("TypeError")
    ELSE \E i \in 1..Len(stages) : PyEq(stages[i].stage_id, stage_id)

StageIndex(stages, stage_id) ==
    CHOOSE i \in 1..Len(stages) : PyEq(stages[i].stage_id, stage_id)

\* stages[stage_id] = agg
DictSet(stages, stage_id, agg) ==
    IF ~Hashable(stage_id) THEN Exception("TypeError")
    ELSE IF HasStage(stages, stage_id)
    THEN [stages EXCEPT ![StageIndex(stages, stage_id)] = agg]
    ELSE Append(stages, agg)

\* executors.add(executor_id)
SetAdd(executors, executor_id) ==
    IF ~Hashable(executor_id) THEN Exception("TypeError")
    ELSE IF \E i \in 1..Len(executors) : PyEq(executors[i], executor_id)
    THEN executors
    ELSE Append(executors, executor_id)

\* stage_metrics_list.sort(key=lambda s: s.stage_id): a stable insertion sort
RECURSIVE InsertByStageId(_, _)
InsertByStageId(sm, s) ==
    IF s = <<>> THEN <<sm>>
    ELSE IF IntLess(sm.stage_id, Head(s).stage_id) THEN <<sm>> \o s
    ELSE <<Head(s)>> \o InsertByStageId(sm, Tail(s))

RECURSIVE SortByStageId(_)
SortByStageId(s) ==
    IF s = <<>> THEN <<>>
    ELSE InsertByStageId(s[Len(s)], SortByStageId(SubSeq(s, 1, Len(s) - 1)))

(***************************************************************************)
(* _extract_metrics_streaming: the local variables of the function as one  *)
(* record, and one operator per branch of its loop.  Each returns the      *)
(* locals after the branch, or the exception that leaves the function.     *)
(***************************************************************************)
InitLocals ==
    [ app_id     |-> "",
      app_name   |-> "",
      start_time |-> None,
      end_time   |-> None,
      stages     |-> <<>>,
      executors  |-> <<>> ]

\* event.get("Event", "")
EventType(event) == Get(event, "Event", "")

\* event_type == type
EventIs(event, type) == PyType(EventType(event)) = "str" /\ EventType(event) = type

\* event.get("Stage ID", 0) of a TaskEnd
TaskStageId(event) == Get(event, "Stage ID", 0)

OnApplicationStart(s, event) ==
    [ s EXCEPT !.app_id     = Get(event, "App ID", ""),
               !.app_name   = Get(event, "App Name", ""),
               !.start_time = GetOpt(event, "Timestamp") ]

OnApplicationEnd(s, event) ==
    [ s EXCEPT !.end_time = GetOpt(event, "Timestamp") ]

OnStageSubmitted(s, event) ==
    LET stage_info == Get(event, "Stage Info", EmptyDict)
        stage_id   == Get(stage_info, "Stage ID", 0)
        agg        == NewStageAggregator(stage_id,
                                         Get(stage_info, "Stage Name", ""),
                                         Get(stage_info, "Number of Tasks", 0),
                                         GetOpt(event, "Timestamp"))
    IN  IF ~IsDict(stage_info) THEN Exception("AttributeError")
        ELSE IF ~Hashable(stage_id) THEN Exception("TypeError")
        ELSE [ s EXCEPT !.stages = DictSet(@, stage_id, agg) ]

\* variant of OnStageCompleted: a completion of an unknown stage creates its
\* aggregator
OnStageCompleted_CreatesStage(s, event) ==
    LET stage_info == Get(event, "Stage Info", EmptyDict)
        stage_id   == Get(stage_info, "Stage ID", 0)
        known      == IF HasStage(s.stages, stage_id) THEN s.stages
                      ELSE Append(s.stages, NewStageAggregator(stage_id, "", 0, None))
    IN  IF ~IsDict(stage_info) THEN Exception("AttributeError")
        ELSE IF ~Hashable(stage_id) THEN Exception("TypeError")
        ELSE [ s EXCEPT !.stages =
                 [ known EXCEPT ![StageIndex(known, stage_id)] =
                     [ @ EXCEPT !.completion_time_ms = GetOpt(event, "Timestamp"),
                                !.num_failed_tasks   =
                                    Get(stage_info, "Number of Failed Tasks", 0) ] ] ]

OnStageCompleted(s, event) ==
    LET stage_info == Get(event, "Stage Info", EmptyDict)
        stage_id   == Get(stage_info, "Stage ID", 0)
    IN  IF ~IsDict(stage_info) THEN Exception("AttributeError")
        ELSE IF ~Hashable(stage_id) THEN Exception("TypeError")
        ELSE IF HasStage(s.stages, stage_id)
        THEN [ s EXCEPT !.stages[StageIndex(s.stages, stage_id)] =
                 [ @ EXCEPT !.completion_time_ms = GetOpt(event, "Timestamp"),
                            !.num_failed_tasks   =
                                Get(stage_info, "Number of Failed Tasks", 0) ] ]
        ELSE s

OnTaskEnd(s, event, j) ==
    LET task_info    == Get(event, "Task Info", EmptyDict)
        task_metrics == Get(event, "Task Metrics", EmptyDict)
        stage_id     == Get(event, "Stage ID", 0)
        executor_id  == Get(task_info, "Executor ID", "")
        s1           == [ s EXCEPT !.executors = SetAdd(@, executor_id) ]
        Added(agg)   == IF Raises(agg) THEN agg
                        ELSE [ s1 EXCEPT !.stages[StageIndex(s.stages, stage_id)] = agg ]
    IN  IF ~IsDict(task_info) THEN Exception("AttributeError")
        ELSE IF ~Hashable(executor_id) \/ ~Hashable(stage_id) THEN Exception("TypeError")
        ELSE IF ~HasStage(s.stages, stage_id) THEN s1
        ELSE Added(AddTask(s.stages[StageIndex(s.stages, stage_id)],
                           task_info, task_metrics, j))

OnExecutorAdded(s, event) ==
    IF ~Hashable(Get(event, "Executor ID", "")) THEN Exception("TypeError")
    ELSE [ s EXCEPT !.executors = SetAdd(@, Get(event, "Executor ID", "")) ]

\* one iteration of the loop on the yielded value y: event.get raises
\* AttributeError when the value is not a dict, an event of another type
\* takes no branch; j is the random draw of add_task
OnEvent(s, y, j) ==
    IF ~y.isdict THEN Exception("AttributeError")
    ELSE IF EventIs(y.value, "SparkListenerApplicationStart")
    THEN OnApplicationStart(s, y.value)
    ELSE IF EventIs(y.value, "SparkListenerApplicationEnd")
    THEN OnApplicationEnd(s, y.value)
    ELSE IF EventIs(y.value, "SparkListenerStageSubmitted")
    THEN OnStageSubmitted(s, y.value)
    ELSE IF EventIs(y.value, "SparkListenerStageCompleted")
    THEN OnStageCompleted(s, y.value)
    ELSE IF EventIs(y.value, "SparkListenerTaskEnd")
    THEN OnTaskEnd(s, y.value, j)
    ELSE IF EventIs(y.value, "SparkListenerExecutorAdded")
    THEN OnExecutorAdded(s, y.value)
    ELSE s

(***************************************************************************)
(* The code after the loop (parser.py:135-163) and SparkMetrics.           *)
(***************************************************************************)
\* sum(s.<field> for s in stage_metrics_list)
SumOver(list, field) == SumSeq([i \in 1..Len(list) |-> list[i][field]])

\* variant of TotalDuration: the operands swapped
TotalDuration_Swapped(s) ==
    IF s.start_time # None /\ s.end_time # None
    THEN IntSub(s.start_time[1], s.end_time[1])
    ELSE 0

\* total_duration (parser.py:139-141): the subtraction raises TypeError on
\* timestamps that are not numbers
TotalDuration(s) ==
    IF s.start_time # None /\ s.end_time # None
    THEN IF IsNumber(s.end_time[1]) /\ IsNumber(s.start_time[1])
         THEN IntSub(s.end_time[1], s.start_time[1])
         ELSE Exception("TypeError")
    ELSE 0

\* variant of CountCompletedStages: the stages that have a completion time
CountCompletedStages_WithCompletionTime(list) ==
    Cardinality({i \in 1..Len(list) : list[i].completion_time_ms # None})

\* sum(1 for s in stage_metrics_list if s.num_failed_tasks == 0)
CountCompletedStages(list) ==
    Cardinality({i \in 1..Len(list) : PyEq(list[i].num_failed_tasks, 0)})

\* sum(1 for s in stage_metrics_list if s.num_failed_tasks > 0)
CountFailedStages(list) ==
    Cardinality({i \in 1..Len(list) : IntLess(0, list[i].num_failed_tasks)})

\* sum(s.num_tasks - s.num_failed_tasks for s in stage_metrics_list)
TotalCompletedTasks(list) ==
    SumSeq([i \in 1..Len(list) |-> IntSub(list[i].num_tasks, list[i].num_failed_tasks)])

\* variant of TotalNumTasks: the failed tasks are left out
TotalNumTasks_WithoutFailed(list) ==
    SumSeq([i \in 1..Len(list) |-> IntSub(list[i].num_tasks, list[i].num_failed_tasks)])

\* sum(s.num_tasks for s in stage_metrics_list)
TotalNumTasks(list) == SumOver(list, "num_tasks")

\* the five application-level byte totals
TotalBytes(list) ==
    [ total_input_bytes         |-> SumOver(list, "input_bytes"),
      total_output_bytes        |-> SumOver(list, "output_bytes"),
      total_shuffle_read_bytes  |-> SumOver(list, "shuffle_read_bytes"),
      total_shuffle_write_bytes |-> SumOver(list, "shuffle_write_bytes"),
      total_disk_bytes_spilled  |-> SumOver(list, "disk_bytes_spilled") ]

\* the orders in which a set of n elements can be iterated
Orders(n) == { o \in [1..n -> 1..n] : \A i, k \in 1..n : i # k => o[i] # o[k] }

\* list(executors) when the set is iterated in the given order.  The
\* iteration order of a set of str depends on the hash seed of the process
\* (PYTHONHASHSEED, random by default), so every order is an outcome.
ListOfSet(executors, order) == [i \in 1..Len(executors) |-> executors[order[i]]]

\* set(list)
Range(l) == { l[i] : i \in 1..Len(l) }

\* the keyword arguments passed to SparkMetrics(...); executor_ids is the
\* list that list(executors) returned
SparkMetricsArgs(s, stage_metrics_list, executor_ids) ==
    LET bytes == TotalBytes(stage_metrics_list)
    IN  [ app_id                    |-> s.app_id,
          app_name                  |-> s.app_name,
          start_time_ms             |-> s.start_time,
          end_time_ms               |-> s.end_time,
          total_duration_ms         |-> TotalDuration(s),
          num_stages                |-> Len(s.stages),
          num_completed_stages      |-> CountCompletedStages(stage_metrics_list),
          num_failed_stages         |-> CountFailedStages(stage_metrics_list),
          stages                    |-> stage_metrics_list,
          num_tasks                 |-> TotalNumTasks(stage_metrics_list),
          num_completed_tasks       |-> TotalCompletedTasks(stage_metrics_list),
          num_failed_tasks          |-> SumOver(stage_metrics_list, "num_failed_tasks"),
          num_executors             |-> Len(s.executors),
          executor_ids              |-> executor_ids,
          total_input_bytes         |-> bytes.total_input_bytes,
          total_output_bytes        |-> bytes.total_output_bytes,
          total_shuffle_read_bytes  |-> bytes.total_shuffle_read_bytes,
          total_shuffle_write_bytes |-> bytes.total_shuffle_write_bytes,
          total_disk_bytes_spilled  |-> bytes.total_disk_bytes_spilled ]

\* SparkMetrics(**kwargs) on the arguments the parsers pass: the object
\* pydantic builds, or ValidationError.  `stages` holds StageMetrics objects.
SparkMetrics(kwargs) ==
    LET strs      == {"app_id", "app_name"}
        optionals == {"start_time_ms", "end_time_ms"}
        as_is     == {"stages", "executor_ids"}
        annotation(name) ==
            IF name \in strs THEN "str"
            ELSE IF name \in optionals THEN "int | None"
            ELSE "int >= 0"
        Built(stored) ==
            IF \/ \E name \in DOMAIN kwargs : stored[name] = None
               \/ \E i \in 1..Len(kwargs.executor_ids) : Field("str", kwargs.executor_ids[i]) = None
            THEN Exception("ValidationError")
            ELSE [ name \in DOMAIN kwargs |-> stored[name][1] ]
    IN  Built([ name \in DOMAIN kwargs |->
                  IF name \in as_is THEN Some(kwargs[name])
                  ELSE Field(annotation(name), kwargs[name]) ])

NoMetrics == <<>>

Returned(m) == [status |-> "ok", error |-> "", metrics |-> m]

Raised(err) == [status |-> "raised", error |-> err, metrics |-> NoMetrics]

NoResult == [status |-> "none", error |-> "", metrics |-> NoMetrics]

\* the index of the first element of a sequence of records that is an
\* exception, 0 when there is none
FirstException(seq) ==
    IF \E i \in 1..Len(seq) : Raises(seq[i])
    THEN CHOOSE i \in 1..Len(seq) : Raises(seq[i]) /\ \A k \in 1..(i - 1) : ~Raises(seq[k])
    ELSE 0

\* what _extract_metrics_streaming does once the file is exhausted: the
\* snapshots in dict order up to the first that raises, the sort, the total
\* duration and the SparkMetrics constructor
BuildMetrics(s, executor_ids) ==
    LET Constructed(m) == IF Raises(m) THEN Raised(m.exception) ELSE Returned(m)
        Frozen(snapshots, failed) ==
            IF failed # 0 THEN Raised(snapshots[failed].exception)
            ELSE IF s.start_time # None /\ s.end_time # None
                    /\ ~(IsNumber(s.end_time[1]) /\ IsNumber(s.start_time[1]))
            THEN Raised("TypeError")
            ELSE Constructed(SparkMetrics(SparkMetricsArgs(s, SortByStageId(snapshots),
                                                           executor_ids)))
        Snapshots(snapshots) == Frozen(snapshots, FirstException(snapshots))
    IN  Snapshots([i \in 1..Len(s.stages) |-> ToStageMetrics(s.stages[i])])

(***************************************************************************)
(* _extract_metrics_legacy (parse_eventlog with streaming=False): the      *)
(* events of the file are listed first and then processed by one loop.     *)
(* The local dict `stages` is a sequence of stage dicts in insertion       *)
(* order; the dict `tasks` of lists is one sequence of [key, task] in      *)
(* arrival order, tasks[stage_id] being the tasks whose key equals         *)
(* stage_id.  A stage dict always has its two optional keys here: a        *)
(* missing "completion_time_ms" is None and a missing "num_failed_tasks"   *)
(* is 0, which is what the .get calls that read them return.               *)
(***************************************************************************)
\* _parse_task_metrics: the TaskMetrics built, or the exception that leaves
\* the function, in the order the code evaluates
ParseTaskMetrics(event, task_info, task_metrics, stage_id) ==
    LET shuffle_read   == Get(task_metrics, "Shuffle Read Metrics", EmptyDict)
        shuffle_write  == Get(task_metrics, "Shuffle Write Metrics", EmptyDict)
        input_metrics  == Get(task_metrics, "Input Metrics", EmptyDict)
        output_metrics == Get(task_metrics, "Output Metrics", EmptyDict)
        launch_time    == Get(task_info, "Launch Time", 0)
        finish_time    == Get(task_info, "Finish Time", 0)
        remote         == Get(shuffle_read, "Remote Bytes Read", 0)
        local          == Get(shuffle_read, "Local Bytes Read", 0)
        \* remote + local: numbers are added, strings and lists concatenated
        CanAdd         == \/ IsNumber(remote) /\ IsNumber(local)
                          \/ PyType(remote) = "str" /\ PyType(local) = "str"
                          \/ PyType(remote) = "list" /\ PyType(local) = "list"
        write_time     == Get(shuffle_write, "Shuffle Write Time", 0)
        \* x // 1_000_000 (1_000_000 = 64 * 15625), rounded towards minus
        \* infinity
        Millionth(x) ==
            LET \* floor(a / d) and a mod d for a digit d > 0
                RECURSIVE DivDigit(_, _)
                DivDigit(a, d) ==
                    IF a = <<>> THEN [q |-> <<>>, r |-> 0]
                    ELSE LET high == DivDigit(Tail(a), d)
                         IN  [ q |-> <<(high.r * 16384 + a[1]) \div d>> \o high.q,
                               r |-> (high.r * 16384 + a[1]) % d ]
                Divided(by64, by15625) ==
                    IF x.neg /\ (by64.r # 0 \/ by15625.r # 0)
                    THEN PyInt(TRUE, BigAdd(by15625.q, <<1>>, 0))
                    ELSE PyInt(x.neg, by15625.q)
                Halved(by64) == Divided(by64, DivDigit(by64.q, 15625))
            IN  Halved(DivDigit(x.m, 64))
        end_reason     == Get(event, "Task End Reason", EmptyDict)
        \* failure_reason: str | None
        ReasonOk       == \/ GetOpt(end_reason, "Reason") = None
                          \/ PyType(Get(end_reason, "Reason", "")) = "str"
        \* the int fields of ShuffleMetrics, of SpillMetrics and of TaskMetrics
        of_shuffle     == { "read_bytes", "read_records", "write_bytes", "write_records",
                            "read_time_ms", "write_time_ms" }
        of_spill       == { "memory_bytes_spilled", "disk_bytes_spilled" }
        of_task        == { "task_id", "stage_id", "launch_time_ms", "finish_time_ms",
                            "duration_ms", "executor_run_time_ms", "executor_cpu_time_ns",
                            "gc_time_ms", "input_bytes", "input_records", "output_bytes",
                            "output_records", "result_size_bytes" }
        \* those without Field(ge=0)
        unconstrained  == { "task_id", "stage_id", "launch_time_ms", "finish_time_ms" }
        \* the argument each of these fields is given; later is
        \* finish_time > launch_time
        Argument(name, later) ==
            CASE name = "read_bytes"           ->
                     IF IsNumber(remote) THEN IntAdd(remote, local) ELSE remote \o local
              [] name = "read_records"         -> Get(shuffle_read, "Total Records Read", 0)
              [] name = "write_bytes"          -> Get(shuffle_write, "Shuffle Bytes Written", 0)
              [] name = "write_records"        -> Get(shuffle_write, "Shuffle Records Written", 0)
              [] name = "read_time_ms"         -> Get(shuffle_read, "Fetch Wait Time", 0)
              [] name = "write_time_ms"        -> Millionth(SignMagnitude(write_time))
              [] name = "memory_bytes_spilled" -> Get(task_metrics, "Memory Bytes Spilled", 0)
              [] name = "disk_bytes_spilled"   -> Get(task_metrics, "Disk Bytes Spilled", 0)
              [] name = "task_id"              -> Get(task_info, "Task ID", 0)
              [] name = "stage_id"             -> stage_id
              [] name = "launch_time_ms"       -> launch_time
              [] name = "finish_time_ms"       -> finish_time
              [] name = "duration_ms"          ->
                     IF later = "True" THEN IntSub(finish_time, launch_time) ELSE 0
              [] name = "executor_run_time_ms" -> Get(task_metrics, "Executor Run Time", 0)
              [] name = "executor_cpu_time_ns" -> Get(task_metrics, "Executor CPU Time", 0)
              [] name = "gc_time_ms"           -> Get(task_metrics, "JVM GC Time", 0)
              [] name = "input_bytes"          -> Get(input_metrics, "Bytes Read", 0)
              [] name = "input_records"        -> Get(input_metrics, "Records Read", 0)
              [] name = "output_bytes"         -> Get(output_metrics, "Bytes Written", 0)
              [] name = "output_records"       -> Get(output_metrics, "Records Written", 0)
              [] name = "result_size_bytes"    -> Get(task_metrics, "Result Size", 0)
        \* stored maps each field to what pydantic stores (None:
        \* ValidationError); the exceptions in the order the code evaluates
        Built(later, stored) ==
            IF ~IsDict(task_metrics) \/ ~IsDict(shuffle_read) THEN Exception("AttributeError")
            ELSE IF ~CanAdd THEN Exception("TypeError")
            ELSE IF ~IsDict(shuffle_write) THEN Exception("AttributeError")
            ELSE IF ~IsNumber(write_time) THEN Exception("TypeError")
            ELSE IF \E name \in of_shuffle \cup of_spill : stored[name] = None
            THEN Exception("ValidationError")
            ELSE IF later = "TypeError" THEN Exception("TypeError")
            ELSE IF later = "True" /\ ~(IsNumber(finish_time) /\ IsNumber(launch_time))
            THEN Exception("TypeError")
            ELSE IF ~IsDict(input_metrics) \/ ~IsDict(output_metrics) \/ ~IsDict(end_reason)
            THEN Exception("AttributeError")
            ELSE IF \/ \E name \in of_task : stored[name] = None
                    \/ Field("str", Get(task_info, "Executor ID", "")) = None
                    \/ Field("str", Get(task_info, "Host", "")) = None
                    \/ AsBool(Get(task_info, "Failed", FALSE)) = None
                    \/ ~ReasonOk
            THEN Exception("ValidationError")
            ELSE [ name \in of_task |-> stored[name][1] ]
                 @@ [ executor_id    |-> Get(task_info, "Executor ID", ""),
                      host           |-> Get(task_info, "Host", ""),
                      shuffle        |-> [ name \in of_shuffle |-> stored[name][1] ],
                      spill          |-> [ name \in of_spill |-> stored[name][1] ],
                      failed         |-> AsBool(Get(task_info, "Failed", FALSE))[1],
                      failure_reason |-> GetOpt(end_reason, "Reason") ]
        Timed(later) ==
            Built(later,
                  [ name \in of_shuffle \cup of_spill \cup of_task |->
                      Field(IF name \in unconstrained THEN "int" ELSE "int >= 0",
                            Argument(name, later)) ])
    IN  Timed(PyGreater(finish_time, launch_time))

\* _build_stage_metrics: the StageMetrics built, or the exception that
\* leaves the function
BuildStageMetrics(stage_data, tasks) ==
    LET submission == stage_data.submission_time_ms
        completion == stage_data.completion_time_ms
        \* sum(t.<field> for t in tasks), the fields of shuffle and spill included
        Flat(t)    == [ input_bytes          |-> t.input_bytes,
                        input_records        |-> t.input_records,
                        output_bytes         |-> t.output_bytes,
                        output_records       |-> t.output_records,
                        shuffle_read_bytes   |-> t.shuffle.read_bytes,
                        shuffle_write_bytes  |-> t.shuffle.write_bytes,
                        memory_bytes_spilled |-> t.spill.memory_bytes_spilled,
                        disk_bytes_spilled   |-> t.spill.disk_bytes_spilled ]
        \* statistics.median: the middle value, or the mean a / 2 of the two
        \* middle values, a true division, whose result is the nearest double
        \* int(x) as an Optional: None when x is the OverflowError of
        \* _percentile or an infinity, on which int() raises OverflowError
        Truncated(x) == IF Raises(x) \/ "inf" \in DOMAIN x THEN None ELSE Some(FloatInt(x))
        Halved(a) == Truncated(Round53(a.neg, a.m, -1, FALSE))
        Median(durations_sorted, count) ==
            IF count % 2 = 1 THEN Some(durations_sorted[(count \div 2) + 1])
            ELSE Halved(SignMagnitude(IntAdd(durations_sorted[count \div 2],
                                             durations_sorted[(count \div 2) + 1])))
        Built(durations_sorted, count, pct, sum, subtract) ==
            IF \E p \in DOMAIN pct : pct[p] = None THEN Exception("OverflowError")
            ELSE IF subtract /\ ~(IsNumber(completion[1]) /\ IsNumber(submission[1]))
            THEN Exception("TypeError")
            ELSE StageMetrics(
                   [ stage_id                |-> stage_data.stage_id,
                     stage_name              |-> stage_data.stage_name,
                     num_tasks               |-> Len(tasks),
                     submission_time_ms      |-> submission,
                     completion_time_ms      |-> completion,
                     duration_ms             |-> IF subtract
                                                 THEN IntSub(completion[1], submission[1])
                                                 ELSE 0,
                     task_duration_min_ms    |-> IF count > 0 THEN durations_sorted[1] ELSE 0,
                     task_duration_max_ms    |-> IF count > 0 THEN durations_sorted[count] ELSE 0,
                     task_duration_median_ms |-> pct[50][1],
                     task_duration_p75_ms    |-> pct[75][1],
                     task_duration_p90_ms    |-> pct[90][1],
                     task_duration_p99_ms    |-> pct[99][1],
                     input_bytes             |-> sum["input_bytes"],
                     input_records           |-> sum["input_records"],
                     output_bytes            |-> sum["output_bytes"],
                     output_records          |-> sum["output_records"],
                     shuffle_read_bytes      |-> sum["shuffle_read_bytes"],
                     shuffle_write_bytes     |-> sum["shuffle_write_bytes"],
                     memory_bytes_spilled    |-> sum["memory_bytes_spilled"],
                     disk_bytes_spilled      |-> sum["disk_bytes_spilled"],
                     num_failed_tasks        |->
                         Cardinality({i \in 1..Len(tasks) : tasks[i].failed}) ])
        Sums(durations_sorted) ==
            Built(durations_sorted,
                  Len(durations_sorted),
                  \* int(statistics.median(durations)) and int(_percentile(...))
                  [ p \in {50, 75, 90, 99} |->
                      IF durations_sorted = <<>> THEN Some(0)
                      ELSE IF p = 50
                      THEN Median(durations_sorted, Len(durations_sorted))
                      ELSE Truncated(Percentile(durations_sorted, p)) ],
                  [ f \in { "input_bytes", "input_records", "output_bytes", "output_records",
                             "shuffle_read_bytes", "shuffle_write_bytes",
                             "memory_bytes_spilled", "disk_bytes_spilled" } |->
                      SumSeq([i \in 1..Len(tasks) |-> Flat(tasks[i])[f]]) ],
                  submission # None /\ completion # None)
    IN  Sums(Sorted([i \in 1..Len(tasks) |-> tasks[i].duration_ms]))

\* one iteration of the loop over the listed events: the locals after it, or
\* the exception that leaves the function
LegacyEvent(s, y) ==
    LET
        LegacyStageSubmitted(st, event) ==
            LET stage_info == Get(event, "Stage Info", EmptyDict)
                stage_id   == Get(stage_info, "Stage ID", 0)
                stage_data == [ stage_id           |-> stage_id,
                                stage_name         |-> Get(stage_info, "Stage Name", ""),
                                num_tasks          |-> Get(stage_info, "Number of Tasks", 0),
                                submission_time_ms |-> GetOpt(event, "Timestamp"),
                                completion_time_ms |-> None,
                                num_failed_tasks   |-> 0 ]
            IN  IF ~IsDict(stage_info) THEN Exception("AttributeError")
                ELSE IF ~Hashable(stage_id) THEN Exception("TypeError")
                ELSE [ st EXCEPT !.stages = DictSet(@, stage_id, stage_data) ]

        LegacyStageCompleted(st, event) ==
            LET stage_info == Get(event, "Stage Info", EmptyDict)
                stage_id   == Get(stage_info, "Stage ID", 0)
            IN  IF ~IsDict(stage_info) THEN Exception("AttributeError")
                ELSE IF ~Hashable(stage_id) THEN Exception("TypeError")
                ELSE IF HasStage(st.stages, stage_id)
                THEN [ st EXCEPT !.stages[StageIndex(st.stages, stage_id)] =
                         [ @ EXCEPT !.completion_time_ms = GetOpt(event, "Timestamp"),
                                    !.num_failed_tasks   =
                                        Get(stage_info, "Number of Failed Tasks", 0) ] ]
                ELSE st

        LegacyTaskEnd(st, event) ==
            LET task_info    == Get(event, "Task Info", EmptyDict)
                task_metrics == Get(event, "Task Metrics", EmptyDict)
                stage_id     == Get(event, "Stage ID", 0)
                executor_id  == Get(task_info, "Executor ID", "")
                Parsed(task) ==
                    IF Raises(task) THEN task
                    ELSE [ st EXCEPT !.executors = SetAdd(@, executor_id),
                                     !.tasks     = Append(@, [key |-> stage_id, task |-> task]) ]
            IN  IF ~IsDict(task_info) THEN Exception("AttributeError")
                ELSE IF ~Hashable(executor_id) THEN Exception("TypeError")
                ELSE Parsed(ParseTaskMetrics(event, task_info, task_metrics, stage_id))
    IN
        IF ~y.isdict THEN Exception("AttributeError")
        ELSE IF EventIs(y.value, "SparkListenerApplicationStart")
        THEN [ s EXCEPT !.app_id     = Get(y.value, "App ID", ""),
                        !.app_name   = Get(y.value, "App Name", ""),
                        !.start_time = GetOpt(y.value, "Timestamp") ]
        ELSE IF EventIs(y.value, "SparkListenerApplicationEnd")
        THEN [ s EXCEPT !.end_time = GetOpt(y.value, "Timestamp") ]
        ELSE IF EventIs(y.value, "SparkListenerStageSubmitted")
        THEN LegacyStageSubmitted(s, y.value)
        ELSE IF EventIs(y.value, "SparkListenerStageCompleted")
        THEN LegacyStageCompleted(s, y.value)
        ELSE IF EventIs(y.value, "SparkListenerTaskEnd")
        THEN LegacyTaskEnd(s, y.value)
        ELSE IF EventIs(y.value, "SparkListenerExecutorAdded")
        THEN (IF ~Hashable(Get(y.value, "Executor ID", "")) THEN Exception("TypeError")
              ELSE [ s EXCEPT !.executors = SetAdd(@, Get(y.value, "Executor ID", "")) ])
        ELSE s

\* the loop: the events in order, up to the first one that raises
RECURSIVE LegacyLoop(_, _)
LegacyLoop(s, events) ==
    IF events = <<>> \/ Raises(s) THEN s
    ELSE LegacyLoop(LegacyEvent(s, Head(events)), Tail(events))

\* the locals of _extract_metrics_legacy when its loop ends, or the
\* exception that left the loop
LegacyLocals(events) ==
    LegacyLoop([ app_id     |-> "",
                 app_name   |-> "",
                 start_time |-> None,
                 end_time   |-> None,
                 stages     |-> <<>>,
                 tasks      |-> <<>>,
                 executors  |-> <<>> ], events)

\* _extract_metrics_legacy(events) after its loop; `loop` is LegacyLocals(events)
\* and executor_ids the list that list(executors) returns
ExtractMetricsLegacy(loop, executor_ids) ==
    LET
        \* tasks.get(stage_id, [])
        TasksOfStage(tasks, stage_id) ==
            LET OfStage(t) == PyEq(t.key, stage_id)
                selected   == SelectSeq(tasks, OfStage)
            IN  [i \in 1..Len(selected) |-> selected[i].task]

        \* the keyword arguments _extract_metrics_legacy passes to SparkMetrics(...)
        LegacyMetricsArgs(st, list, ids) ==
            LET bytes               == TotalBytes(list)
                total_tasks         == Len(st.tasks)
                total_failed_tasks  == SumOver(list, "num_failed_tasks")
                total_failed_stages ==
                    Cardinality({i \in 1..Len(st.stages) :
                                   PyGreater(st.stages[i].num_failed_tasks, 0) = "True"})
            IN  [ app_id                    |-> st.app_id,
                  app_name                  |-> st.app_name,
                  start_time_ms             |-> st.start_time,
                  end_time_ms               |-> st.end_time,
                  total_duration_ms         |-> TotalDuration(st),
                  num_stages                |-> Len(st.stages),
                  num_completed_stages      |-> Len(st.stages) - total_failed_stages,
                  num_failed_stages         |-> total_failed_stages,
                  stages                    |-> list,
                  num_tasks                 |-> total_tasks,
                  num_completed_tasks       |-> total_tasks - total_failed_tasks,
                  num_failed_tasks          |-> total_failed_tasks,
                  num_executors             |-> Len(st.executors),
                  executor_ids              |-> ids,
                  total_input_bytes         |-> bytes.total_input_bytes,
                  total_output_bytes        |-> bytes.total_output_bytes,
                  total_shuffle_read_bytes  |-> bytes.total_shuffle_read_bytes,
                  total_shuffle_write_bytes |-> bytes.total_shuffle_write_bytes,
                  total_disk_bytes_spilled  |-> bytes.total_disk_bytes_spilled ]
        Constructed(m) == IF Raises(m) THEN Raised(m.exception) ELSE Returned(m)

        Listed(s, built, failed) ==
            IF failed # 0 THEN Raised(built[failed].exception)
            ELSE IF s.start_time # None /\ s.end_time # None
                    /\ ~(IsNumber(s.end_time[1]) /\ IsNumber(s.start_time[1]))
            THEN Raised("TypeError")
            ELSE IF \E i \in 1..Len(s.stages) :
                      PyGreater(s.stages[i].num_failed_tasks, 0) = "TypeError"
            THEN Raised("TypeError")
            ELSE Constructed(SparkMetrics(LegacyMetricsArgs(s, SortByStageId(built),
                                                            executor_ids)))

        Built(s, built) == Listed(s, built, FirstException(built))

        AfterLoop(s) ==
            IF Raises(s) THEN Raised(s.exception)
            ELSE Built(s, [i \in 1..Len(s.stages) |->
                             BuildStageMetrics(s.stages[i],
                                               TasksOfStage(s.tasks, s.stages[i].stage_id))])
    IN
        AfterLoop(loop)

(***************************************************************************)
(* ThresholdConfig, Finding and the six detectors.                         *)
(* A float threshold is a rational num/den and the float ratios of the     *)
(* detectors are compared by cross-multiplication.  For the thresholds     *)
(* (exactly representable doubles) and the integers below 2^31 used here   *)
(* the comparison in IEEE doubles has the same outcome.                    *)
(***************************************************************************)
MB == 1024 * 1024

Ratio(n, d) == [num |-> n, den |-> d]

\* ThresholdConfig(): the defaults of schemas.py
DefaultThresholds ==
    [ skew_ratio                           |-> Ratio(10, 1),
      shuffle_explosion_ratio              |-> Ratio(5, 1),
      min_spill_mb                         |-> 100,
      min_tasks_for_inefficiency           |-> 200,
      max_task_runtime_ms_for_inefficiency |-> 100,
      io_dominant_ratio                    |-> Ratio(7, 10),
      max_result_size_mb                   |-> 50,
      max_scheduling_delay_ms              |-> 1000 ]

\* the Field constraints of ThresholdConfig
ThresholdsValid(t) ==
    /\ t.skew_ratio.num > t.skew_ratio.den
    /\ t.shuffle_explosion_ratio.num > t.shuffle_explosion_ratio.den
    /\ t.min_spill_mb >= 0
    /\ t.min_tasks_for_inefficiency >= 1
    /\ t.max_task_runtime_ms_for_inefficiency >= 1
    /\ t.io_dominant_ratio.num >= 0
    /\ t.io_dominant_ratio.num <= t.io_dominant_ratio.den
    /\ t.max_result_size_mb >= 0
    /\ t.max_scheduling_delay_ms >= 0

\* a / b >= t for b > 0, that is a * den / b >= num; num is an integer, so
\* the integer part of the left side decides
RatioAtLeast(a, b, t) == (a * t.den) \div b >= t.num

\* a / b > t * 2, for b > 0
RatioAboveTwice(a, b, t) ==
    \/ (a * t.den) \div b > 2 * t.num
    \/ (a * t.den) \div b = 2 * t.num /\ (a * t.den) % b > 0

\* a / b >= t * 2, for b > 0
RatioAtLeastTwice(a, b, t) == (a * t.den) \div b >= 2 * t.num

\* f"{prefix}{stage_id}"
StageFindingId(prefix, stage_id) == prefix \o ToString(stage_id)

\* Finding(...): id, detector, severity, stage_ids, and hint_target, the
\* number formatted into mitigation_hint (None when the hint has none)
Finding(id, detector, severity, stage_ids, hint_target) ==
    [ id          |-> id,
      detector    |-> detector,
      severity    |-> severity,
      stage_ids   |-> stage_ids,
      hint_target |-> hint_target ]

\* the findings of a loop over the stages: the concatenation, in order, of
\* what each iteration appended
RECURSIVE Flatten(_)
Flatten(ss) == IF ss = <<>> THEN <<>> ELSE Head(ss) \o Flatten(Tail(ss))

\* variant of SkewStage: a ratio of exactly twice the threshold is critical
SkewStage_TwiceIsCritical(stage, thresholds) ==
    IF stage.num_tasks < 10 \/ stage.task_duration_median_ms = 0
    THEN <<>>
    ELSE IF RatioAtLeast(stage.task_duration_max_ms, stage.task_duration_median_ms,
                         thresholds.skew_ratio)
         THEN << Finding(StageFindingId("skew-stage-", stage.stage_id), "skew",
                         IF RatioAtLeastTwice(stage.task_duration_max_ms,
                                              stage.task_duration_median_ms,
                                              thresholds.skew_ratio)
                         THEN "critical" ELSE "warning",
                         <<stage.stage_id>>, None) >>
         ELSE <<>>

\* one iteration of the loop of SkewDetector.detect
SkewStage(stage, thresholds) ==
    IF stage.num_tasks < 10
    THEN <<>>
    ELSE IF stage.task_duration_median_ms = 0
    THEN <<>>
    ELSE IF RatioAtLeast(stage.task_duration_max_ms, stage.task_duration_median_ms,
                         thresholds.skew_ratio)
         THEN << Finding(StageFindingId("skew-stage-", stage.stage_id), "skew",
                         IF RatioAboveTwice(stage.task_duration_max_ms,
                                            stage.task_duration_median_ms,
                                            thresholds.skew_ratio)
                         THEN "critical" ELSE "warning",
                         <<stage.stage_id>>, None) >>
         ELSE <<>>

SkewDetect(metrics, thresholds) ==
    Flatten([i \in 1..Len(metrics.stages) |-> SkewStage(metrics.stages[i], thresholds)])

\* variant of ShuffleStage: the stage is flagged whenever it wrote shuffle
\* data, whatever the ratio
ShuffleStage_NoThreshold(stage, thresholds) ==
    IF stage.input_bytes = 0 \/ stage.shuffle_write_bytes <= 0
    THEN <<>>
    ELSE << Finding(StageFindingId("shuffle-explosion-stage-", stage.stage_id), "shuffle",
                    IF RatioAboveTwice(stage.shuffle_write_bytes, stage.input_bytes,
                                       thresholds.shuffle_explosion_ratio)
                    THEN "critical" ELSE "warning",
                    <<stage.stage_id>>, None) >>

\* one iteration of the per-stage loop of ShuffleExplosionDetector.detect
ShuffleStage(stage, thresholds) ==
    IF stage.input_bytes = 0
    THEN <<>>
    ELSE IF stage.shuffle_write_bytes > 0
            /\ RatioAtLeast(stage.shuffle_write_bytes, stage.input_bytes,
                            thresholds.shuffle_explosion_ratio)
         THEN << Finding(StageFindingId("shuffle-explosion-stage-", stage.stage_id), "shuffle",
                         IF RatioAboveTwice(stage.shuffle_write_bytes, stage.input_bytes,
                                            thresholds.shuffle_explosion_ratio)
                         THEN "critical" ELSE "warning",
                         <<stage.stage_id>>, None) >>
         ELSE <<>>

\* variant of ShuffleGlobal: only the shuffle write volume is compared
ShuffleGlobal_WriteOnly(metrics, thresholds) ==
    IF metrics.total_input_bytes > 0
       /\ RatioAtLeastTwice(metrics.total_shuffle_write_bytes, metrics.total_input_bytes,
                            thresholds.shuffle_explosion_ratio)
    THEN << Finding("shuffle-explosion-global", "shuffle", "warning", <<>>, None) >>
    ELSE <<>>

\* the application-wide check of ShuffleExplosionDetector.detect
ShuffleGlobal(metrics, thresholds) ==
    IF metrics.total_input_bytes > 0
       /\ RatioAtLeastTwice(metrics.total_shuffle_read_bytes
                              + metrics.total_shuffle_write_bytes,
                            metrics.total_input_bytes,
                            thresholds.shuffle_explosion_ratio)
    THEN << Finding("shuffle-explosion-global", "shuffle", "warning", <<>>, None) >>
    ELSE <<>>

ShuffleDetect(metrics, thresholds) ==
    Flatten([i \in 1..Len(metrics.stages) |-> ShuffleStage(metrics.stages[i], thresholds)])
        \o ShuffleGlobal(metrics, thresholds)

\* the severity of a stage that spilled disk_bytes_spilled >= min_spill_mb MiB
SpillSeverity(disk_bytes_spilled, min_spill_mb) ==
    IF disk_bytes_spilled > min_spill_mb * 10 * MB THEN "critical"
    ELSE IF disk_bytes_spilled > min_spill_mb * 3 * MB THEN "warning"
    ELSE "info"

\* variant of SpillStage: the warning band starts at three times the threshold
\* inclusive
SpillStage_WarningFromThreeTimes(stage, thresholds) ==
    IF stage.disk_bytes_spilled >= thresholds.min_spill_mb * MB
    THEN << Finding(StageFindingId("spill-stage-", stage.stage_id), "spill",
                    IF stage.disk_bytes_spilled > thresholds.min_spill_mb * 10 * MB
                    THEN "critical"
                    ELSE IF stage.disk_bytes_spilled >= thresholds.min_spill_mb * 3 * MB
                    THEN "warning" ELSE "info",
                    <<stage.stage_id>>, None) >>
    ELSE <<>>

\* one iteration of the per-stage loop of SpillDetector.detect
SpillStage(stage, thresholds) ==
    IF stage.disk_bytes_spilled >= thresholds.min_spill_mb * MB
    THEN << Finding(StageFindingId("spill-stage-", stage.stage_id), "spill",
                    SpillSeverity(stage.disk_bytes_spilled, thresholds.min_spill_mb),
                    <<stage.stage_id>>, None) >>
    ELSE <<>>

\* [s.stage_id for s in metrics.stages if s.disk_bytes_spilled > 0]
StagesWithSpill(stages) ==
    Flatten([i \in 1..Len(stages) |->
               IF stages[i].disk_bytes_spilled > 0 THEN <<stages[i].stage_id>> ELSE <<>>])

\* variant of SpillTotal: stage_ids lists every stage
SpillTotal_AllStages(metrics, thresholds) ==
    IF metrics.total_disk_bytes_spilled >= thresholds.min_spill_mb * 5 * MB
    THEN << Finding("spill-total", "spill", "warning",
                    [i \in 1..Len(metrics.stages) |-> metrics.stages[i].stage_id], None) >>
    ELSE <<>>

\* the application-wide check of SpillDetector.detect
SpillTotal(metrics, thresholds) ==
    IF metrics.total_disk_bytes_spilled >= thresholds.min_spill_mb * 5 * MB
    THEN << Finding("spill-total", "spill", "warning",
                    StagesWithSpill(metrics.stages), None) >>
    ELSE <<>>

SpillDetect(metrics, thresholds) ==
    Flatten([i \in 1..Len(metrics.stages) |-> SpillStage(metrics.stages[i], thresholds)])
        \o SpillTotal(metrics, thresholds)

\* the over-partitioning check of one stage
OverPartitioned(stage, thresholds) ==
    IF stage.num_tasks >= thresholds.min_tasks_for_inefficiency
       /\ stage.task_duration_median_ms <= thresholds.max_task_runtime_ms_for_inefficiency
    THEN << Finding(StageFindingId("partition-inefficiency-stage-", stage.stage_id),
                    "partition", "warning", <<stage.stage_id>>,
                    Some(Max(stage.num_tasks \div 10, 1))) >>
    ELSE <<>>

\* the under-partitioning check of one stage
UnderPartitioned(stage, metrics) ==
    IF stage.num_tasks < 10 /\ stage.task_duration_median_ms > 60000
    THEN << Finding(StageFindingId("under-partitioned-stage-", stage.stage_id),
                    "partition", "info", <<stage.stage_id>>,
                    Some(metrics.num_executors * 2)) >>
    ELSE <<>>

\* variant of PartitionStage: the over-partitioning hint is num_tasks // 10
PartitionStage_HintNotClamped(stage, metrics, thresholds) ==
    ( IF stage.num_tasks >= thresholds.min_tasks_for_inefficiency
         /\ stage.task_duration_median_ms <= thresholds.max_task_runtime_ms_for_inefficiency
      THEN << Finding(StageFindingId("partition-inefficiency-stage-", stage.stage_id),
                      "partition", "warning", <<stage.stage_id>>,
                      Some(stage.num_tasks \div 10)) >>
      ELSE <<>> )
        \o UnderPartitioned(stage, metrics)

\* one iteration of the loop of PartitionInefficiencyDetector.detect
PartitionStage(stage, metrics, thresholds) ==
    OverPartitioned(stage, thresholds) \o UnderPartitioned(stage, metrics)

PartitionDetect(metrics, thresholds) ==
    Flatten([i \in 1..Len(metrics.stages) |->
               PartitionStage(metrics.stages[i], metrics, thresholds)])

\* (bytes / num_tasks) / (1024 * 1024) if num_tasks > 0 else 0, compared
\* with limit_mb
PerTaskAbove(bytes, num_tasks, limit_mb) ==
    IF num_tasks > 0 THEN bytes > limit_mb * MB * num_tasks ELSE FALSE

\* the shuffle read check of one stage
IOShuffle(stage) ==
    IF stage.shuffle_read_bytes > 0
       /\ PerTaskAbove(stage.shuffle_read_bytes, stage.num_tasks, 100)
       /\ stage.task_duration_median_ms > 10000
    THEN << Finding(StageFindingId("io-shuffle-stage-", stage.stage_id), "io",
                    "warning", <<stage.stage_id>>, None) >>
    ELSE <<>>

\* the input check of one stage
IOInput(stage) ==
    IF stage.input_bytes > 0
       /\ PerTaskAbove(stage.input_bytes, stage.num_tasks, 500)
       /\ stage.task_duration_median_ms > 30000
    THEN << Finding(StageFindingId("io-input-stage-", stage.stage_id), "io",
                    "info", <<stage.stage_id>>, None) >>
    ELSE <<>>

\* one iteration of the loop of IOBottleneckDetector.detect: the two checks
\* are two separate if statements
IOStage(stage) ==
    IF stage.duration_ms = 0 THEN <<>> ELSE IOShuffle(stage) \o IOInput(stage)

IODetect(metrics, thresholds) ==
    Flatten([i \in 1..Len(metrics.stages) |-> IOStage(metrics.stages[i])])

\* one iteration of the scheduling loop of DriverBottleneckDetector.detect
DriverScheduling(stage, thresholds) ==
    IF stage.num_tasks = 0
    THEN <<>>
    ELSE IF stage.task_duration_max_ms > 0 /\ stage.duration_ms > 0
            /\ stage.duration_ms > 5 * stage.task_duration_max_ms
            /\ stage.duration_ms > thresholds.max_scheduling_delay_ms
         THEN << Finding(StageFindingId("driver-scheduling-stage-", stage.stage_id),
                         "driver", "warning", <<stage.stage_id>>, None) >>
         ELSE <<>>

\* variant of LastStages: the first three stages of the sorted list
LastStages_FirstThree(stages) ==
    LET sorted == SortByStageId(stages)
    IN  SubSeq(sorted, 1, Min(3, Len(sorted)))

\* sorted(metrics.stages, key=lambda s: s.stage_id)[-3:]
LastStages(stages) ==
    LET sorted == SortByStageId(stages)
    IN  SubSeq(sorted, Max(Len(sorted) - 2, 1), Len(sorted))

\* one iteration of the large-result loop
DriverLargeResult(stage, thresholds) ==
    IF stage.output_bytes > thresholds.max_result_size_mb * MB
    THEN << Finding(StageFindingId("driver-large-result-stage-", stage.stage_id),
                    "driver", "warning", <<stage.stage_id>>, None) >>
    ELSE <<>>

DriverDetect(metrics, thresholds) ==
    LET last_stages == LastStages(metrics.stages)
    IN  Flatten([i \in 1..Len(metrics.stages) |->
                   DriverScheduling(metrics.stages[i], thresholds)])
          \o Flatten([i \in 1..Len(last_stages) |->
                        DriverLargeResult(last_stages[i], thresholds)])

\* _run_detectors: the findings of the six detectors of get_all_detectors(),
\* in that order
RunDetectors(metrics, thresholds) ==
    SkewDetect(metrics, thresholds)
        \o ShuffleDetect(metrics, thresholds)
        \o SpillDetect(metrics, thresholds)
        \o PartitionDetect(metrics, thresholds)
        \o IODetect(metrics, thresholds)
        \o DriverDetect(metrics, thresholds)

(***************************************************************************)
(* FindingCollection (findings.py:96-141) and the part of Report.to_dict   *)
(* that reads it.  A collection is the list self.findings.  Every method   *)
(* is modelled as a call: the list as the call leaves it, and the value    *)
(* returned.                                                               *)
(***************************************************************************)
\* order = {Severity.CRITICAL: 0, Severity.WARNING: 1, Severity.INFO: 2}
SeverityOrder(severity) ==
    CASE severity = "critical" -> 0
      [] severity = "warning"  -> 1
      [] severity = "info"     -> 2

\* sorted(..., key=lambda f: order[f.severity]) is stable: f, the later
\* element, is placed behind the elements of the same rank
RECURSIVE InsertBySeverity(_, _)
InsertBySeverity(f, s) ==
    IF s = <<>> THEN <<f>>
    ELSE IF SeverityOrder(f.severity) < SeverityOrder(Head(s).severity) THEN <<f>> \o s
    ELSE <<Head(s)>> \o InsertBySeverity(f, Tail(s))

RECURSIVE SortedBySeverity(_)
SortedBySeverity(findings) ==
    IF findings = <<>> THEN <<>>
    ELSE InsertBySeverity(findings[Len(findings)],
                          SortedBySeverity(SubSeq(findings, 1, Len(findings) - 1)))

\* [f for f in self.findings if f.severity == severity]
BySeverity(findings, severity) ==
    Flatten([i \in 1..Len(findings) |->
               IF findings[i].severity = severity THEN <<findings[i]>> ELSE <<>>])

\* [f for f in self.findings if f.detector == detector]
ByDetector(findings, detector) ==
    Flatten([i \in 1..Len(findings) |->
               IF findings[i].detector = detector THEN <<findings[i]>> ELSE <<>>])

\* [f for f in self.findings if stage_id in f.stage_ids]
ByStage(findings, stage_id) ==
    Flatten([i \in 1..Len(findings) |->
               IF stage_id \in Range(findings[i].stage_ids) THEN <<findings[i]>> ELSE <<>>])

\* the entries of Report.to_dict computed from the collection
ToDict(findings) ==
    [ num_findings |-> Len(findings),
      num_critical |-> Len(BySeverity(findings, "critical")),
      num_warnings |-> Len(BySeverity(findings, "warning")),
      findings     |-> SortedBySeverity(findings) ]

\* variant of CollectionCall: sorted_by_severity sorts self.findings in place
\* and returns it
CollectionCall_SortsInPlace(findings, method, arg) ==
    CASE method = "add" ->
           [ findings |-> Append(findings, arg), result |-> None ]
      [] method = "sorted_by_severity" ->
           [ findings |-> SortedBySeverity(findings), result |-> SortedBySeverity(findings) ]
      [] method = "by_severity" ->
           [ findings |-> findings, result |-> BySeverity(findings, arg) ]
      [] method = "by_detector" ->
           [ findings |-> findings, result |-> ByDetector(findings, arg) ]
      [] method = "by_stage" ->
           [ findings |-> findings, result |-> ByStage(findings, arg) ]
      [] method = "to_dict" ->
           [ findings |-> findings, result |-> ToDict(findings) ]

\* collection.<method>(arg): add appends to self.findings and returns None;
\* the queries build a new list and assign nothing
CollectionCall(findings, method, arg) ==
    CASE method = "add" ->
           [ findings |-> Append(findings, arg), result |-> None ]
      [] method = "sorted_by_severity" ->
           [ findings |-> findings, result |-> SortedBySeverity(findings) ]
      [] method = "by_severity" ->
           [ findings |-> findings, result |-> BySeverity(findings, arg) ]
      [] method = "by_detector" ->
           [ findings |-> findings, result |-> ByDetector(findings, arg) ]
      [] method = "by_stage" ->
           [ findings |-> findings, result |-> ByStage(findings, arg) ]
      [] method = "to_dict" ->
           [ findings |-> findings, result |-> ToDict(findings) ]

(***************************************************************************)
(* The explainers (explain/ollama.py, anthropic.py, openai.py) and         *)
(* _add_llm_explanations.  A str is [ws, text]: ws says whether the text   *)
(* is surrounded by whitespace.  The outcome of a request to the client    *)
(* library is [raised, ws, text]: the text of the response, or the message *)
(* of the Exception the client raised.                                     *)
(***************************************************************************)
Providers == {"ollama", "anthropic", "openai"}

\* the label each provider puts in its error string
ProviderLabel(provider) ==
    CASE provider = "ollama"    -> "Ollama"
      [] provider = "anthropic" -> "Anthropic"
      [] provider = "openai"    -> "OpenAI"

\* text.strip()
StripStr(str) == [ws |-> FALSE, text |-> str.text]

\* a function call that returned value / that raised
CallReturned(value) == [raised |-> FALSE, value |-> value]

CallRaised(error) == [raised |-> TRUE, value |-> error]

\* variant of ProviderCall: the exception of the client is raised again
ProviderCall_Reraises(provider, outcome) ==
    IF outcome.raised
    THEN CallRaised(outcome.text)
    ELSE CallReturned(StripStr(outcome))

\* the try statement shared by explain_finding and summarize of the three
\* providers: return <response text>.strip(), except Exception as e:
\* return f"(<Label> error: {e})"
ProviderCall(provider, outcome) ==
    IF outcome.raised
    THEN CallReturned([ws   |-> FALSE,
                       text |-> "(" \o ProviderLabel(provider) \o " error: "
                                    \o outcome.text \o ")"])
    ELSE CallReturned(StripStr(outcome))

\* provider.explain_finding(finding_summary): building the prompt cannot
\* fail, the request is made inside the try
ExplainFinding(provider, outcome) == ProviderCall(provider, outcome)

\* provider.summarize(analysis_summary)
Summarize(provider, outcome) == ProviderCall(provider, outcome)

\* Report(...) as analyze() creates it: no explanation, no summary
NewReport(findings) ==
    [ status           |-> "returned",
      error            |-> "",
      llm_explanations |-> [i \in 1..Len(findings) |-> None],
      llm_summary      |-> None,
      llm_provider     |-> None ]

\* _add_llm_explanations(report, llm_provider) followed by the return of
\* analyze(); outcomes[i] is the outcome of the client request of the i-th
\* call (one per finding, then one for the summary).  No statement of
\* _add_llm_explanations or analyze() catches an exception.
AddLLMExplanations(findings, provider, outcomes) ==
    LET
        \* self.name with the default model of each provider
        ProviderName(p) ==
            CASE p = "ollama"    -> "ollama/codellama:7b-instruct"
              [] p = "anthropic" -> "anthropic/claude-3-sonnet-20240229"
              [] p = "openai"    -> "openai/gpt-4o"
    IN
        LET n            == Len(findings)
            explanations == [i \in 1..n |-> ExplainFinding(provider, outcomes[i])]
            summary      == Summarize(provider, outcomes[n + 1])
        IN  IF \E i \in 1..n : explanations[i].raised
            THEN LET first == CHOOSE i \in 1..n :
                                /\ explanations[i].raised
                                /\ \A k \in 1..(i - 1) : ~explanations[k].raised
                 IN  [ NewReport(findings) EXCEPT !.status = "raised",
                                                  !.error  = explanations[first].value ]
            ELSE IF n = 0
            THEN NewReport(findings)
            ELSE IF summary.raised
            THEN [ NewReport(findings) EXCEPT !.status = "raised", !.error = summary.value ]
            ELSE [ status           |-> "returned",
                   error            |-> "",
                   llm_explanations |-> [i \in 1..n |-> Some(explanations[i].value)],
                   llm_summary      |-> Some(summary.value),
                   llm_provider     |-> Some(ProviderName(provider)) ]

\* get_all_detectors(): the names of the six detector classes, in list order
DetectorNames == <<"skew", "shuffle", "spill", "partition", "io", "driver">>

\* detector.detect(metrics) of the detector called name
DetectOf(name, metrics, thresholds) ==
    CASE name = "skew"      -> SkewDetect(metrics, thresholds)
      [] name = "shuffle"   -> ShuffleDetect(metrics, thresholds)
      [] name = "spill"     -> SpillDetect(metrics, thresholds)
      [] name = "partition" -> PartitionDetect(metrics, thresholds)
      [] name = "io"        -> IODetect(metrics, thresholds)
      [] name = "driver"    -> DriverDetect(metrics, thresholds)

\* variant of DetectorCall: the driver detector keeps its three last stages in
\* metrics.stages
DetectorCall_DriverTruncatesStages(name, metrics, thresholds) ==
    [ metrics    |-> IF name = "driver"
                     THEN [metrics EXCEPT !.stages = LastStages(metrics.stages)]
                     ELSE metrics,
      thresholds |-> thresholds,
      findings   |-> DetectOf(name, metrics, thresholds) ]

\* detector_cls(thresholds=thresholds).detect(metrics): the list returned,
\* and the metrics and threshold objects as the call leaves them.  __init__
\* stores the reference to thresholds and no detect method assigns to an
\* attribute of either object (the driver detector sorts a copy of
\* metrics.stages).
DetectorCall(name, metrics, thresholds) ==
    [ metrics    |-> metrics,
      thresholds |-> thresholds,
      findings   |-> DetectOf(name, metrics, thresholds) ]

(***************************************************************************)
(* State.                                                                  *)
(*   pc           "reading" while the loop runs, "done" after the return   *)
(*                or the exception                                         *)
(*   locals       the local variables of _extract_metrics_streaming        *)
(*   result       what parse_eventlog(path, streaming=True) produced       *)
(*   file         the lines read so far (history)                          *)
(*   yielded      the events the generator has yielded so far (history)    *)
(*   dropped      the TaskEnd events consumed while their stage had no     *)
(*                aggregator (history)                                     *)
(*   shadow       the locals of a second run of the same code over the     *)
(*                same log with the events of `dropped` removed            *)
(*   shadowResult the result of that second run                            *)
(*   legacyResult what parse_eventlog(path, streaming=False) produces on   *)
(*                the same file, in the same process                       *)
(*   twin         a further run of the same code over the same log, in     *)
(*                another process and with its own random draws: its       *)
(*                locals, its result and its findings                      *)
(*   sameDraws    whether random.randint has so far returned the same      *)
(*                values in the run and in its twin (history)              *)
(*   thresholds   the ThresholdConfig analyze() was called with            *)
(*   findings     the FindingCollection of _run_detectors, as the list of  *)
(*                its findings                                             *)
(*   run          detectors called one at a time on a metrics object: the  *)
(*                metrics and thresholds objects as the calls so far left  *)
(*                them, the calls made (detector, findings returned) and   *)
(*                the last repeated call                                   *)
(*   view         the last method called on the FindingCollection: its     *)
(*                name, its argument and the value it returned             *)
(*   report       what analyze() produced: the Report (the explanation of  *)
(*                each finding, the summary, the provider name) or the     *)
(*                exception that left it; with the provider it was given   *)
(*                and the outcome of each client request (history)         *)
(* pc is "analyzed" once analyze() has run the detectors on the result and *)
(* "reported" once analyze() is over.                                      *)
(***************************************************************************)
VARIABLES pc, locals, result, file, yielded, dropped, shadow, shadowResult, legacyResult,
          twin, sameDraws, thresholds, findings, run, view, report

vars == <<pc, locals, result, file, yielded, dropped, shadow, shadowResult, legacyResult,
          twin, sameDraws, thresholds, findings, run, view, report>>

\* the variables the parser and _run_detectors leave alone
reportVars == <<run, view, report>>

NoRun ==
    [ metrics |-> NoMetrics, thresholds |-> DefaultThresholds, calls |-> <<>>, again |-> <<>> ]

NoView == [method |-> "none", arg |-> None, result |-> None]

NoReport ==
    [ status |-> "none", error |-> "", llm_explanations |-> <<>>, llm_summary |-> None,
      llm_provider |-> None, provider |-> None, outcomes |-> <<>> ]

Init ==
    /\ pc = "reading"
    /\ locals = InitLocals
    /\ result = NoResult
    /\ file = <<>>
    /\ yielded = <<>>
    /\ dropped = <<>>
    /\ shadow = InitLocals
    /\ shadowResult = NoResult
    /\ legacyResult = NoResult
    /\ twin = [locals |-> InitLocals, result |-> NoResult, findings |-> <<>>]
    /\ sameDraws = TRUE
    /\ thresholds = DefaultThresholds
    /\ findings = <<>>
    /\ run = NoRun
    /\ view = NoView
    /\ report = NoReport

\* the loop is running and the file has a next line
CanRead == pc = "reading" /\ Len(file) < MaxLines

\* the line yields a dict whose "Event" is type
YieldsEvent(line, type) ==
    /\ ReadEventsStreamingLine(line) # <<>>
    /\ ~Raises(ReadEventsStreamingLine(line)[1])
    /\ ReadEventsStreamingLine(line)[1].isdict
    /\ EventIs(ReadEventsStreamingLine(line)[1].value, type)

EventOf(line) == ReadEventsStreamingLine(line)[1].value

\* bookkeeping shared by the actions that consume a yielded event
Consumed(line) ==
    /\ file' = Append(file, line)
    /\ yielded' = Append(yielded, ReadEventsStreamingLine(line)[1])

\* an empty line or one on which json.loads raises JSONDecodeError: the
\* generator moves on to the next line
SkipLine(line) ==
    /\ CanRead
    /\ ReadEventsStreamingLine(line) = <<>>
    /\ file' = Append(file, line)
    /\ UNCHANGED <<pc, locals, result, yielded, dropped, shadow, shadowResult, legacyResult,
                   twin, sameDraws, thresholds, findings>>
    /\ UNCHANGED reportVars

\* parse_eventlog(streaming=False) on events that its reader yields: loop is
\* what the loop of _extract_metrics_legacy leaves
LegacyReturns(loop) ==
    IF Raises(loop) THEN legacyResult' = Raised(loop.exception)
    ELSE \E order \in Orders(Len(loop.executors)) :
           legacyResult' = ExtractMetricsLegacy(loop, ListOfSet(loop.executors, order))

\* a line on which an exception leaves parse_eventlog: json.loads raises
\* something that is not a JSONDecodeError, the decoded value is not a dict
\* (event.get raises AttributeError at parser.py:93), or the branch of the
\* loop raises.  The twin run reads the same line and raises the same
\* exception.  So does the second run, unless the line is a TaskEnd whose
\* stage has no aggregator (it raises at parser.py:125-126, before the
\* stage is looked up): the second run does not read that event, comes to
\* the end of the file and returns what it has.  The legacy parser lists
\* the whole file before its loop, so it raises what the generator raises,
\* and otherwise runs its loop on the events yielded.  The logs explored
\* end with the line on which the run raises.
LineRaises(line) ==
    LET RaisedBy(r) == IF Raises(r) THEN Raised(r.exception) ELSE NoResult
        \* the line yields a TaskEnd whose stage has no aggregator
        Unread(read) ==
            /\ ~Raises(read[1])
            /\ read[1].isdict
            /\ EventIs(read[1].value, "SparkListenerTaskEnd")
            /\ Hashable(TaskStageId(read[1].value))
            /\ ~HasStage(locals.stages, TaskStageId(read[1].value))
        \* after is what the body of the loop makes of the event read
        Read(read, after) ==
            /\ read # <<>>
            /\ result' = RaisedBy(IF Raises(read[1]) THEN read[1] ELSE after)
            /\ result'.status = "raised"
            /\ yielded' = IF Raises(read[1]) THEN yielded ELSE Append(yielded, read[1])
            /\ dropped' = IF Unread(read) THEN Append(dropped, read[1].value) ELSE dropped
    IN  /\ CanRead
        /\ Read(ReadEventsStreamingLine(line),
                OnEvent(locals, ReadEventsStreamingLine(line)[1], 0))
        /\ IF Raises(ReadEventsStreamingLine(line)[1]) THEN legacyResult' = result'
           ELSE LegacyReturns(LegacyLocals(yielded'))
        /\ IF Unread(ReadEventsStreamingLine(line))
           THEN \E order \in Orders(Len(shadow.executors)) :
                  shadowResult' = BuildMetrics(shadow, ListOfSet(shadow.executors, order))
           ELSE shadowResult' = result'
        /\ file' = Append(file, line)
        /\ pc' = "done"
        /\ twin' = [twin EXCEPT !.result = result']
        /\ UNCHANGED <<locals, shadow, sameDraws, thresholds, findings>>
        /\ UNCHANGED reportVars

\* the run, the second run and the twin run take the same branch of the
\* loop, none raising: after[1], after[2] and after[3] are their locals after
\* it.  A run whose locals (and random draw: same_draw) are those of the
\* first comes out as the first does.
Branch(line, same_draw, after) ==
    /\ locals' = after[1]
    /\ ~Raises(locals')
    /\ Consumed(line)
    /\ shadow' = IF shadow = locals THEN locals' ELSE after[2]
    /\ twin' = [twin EXCEPT !.locals = IF @ = locals /\ same_draw THEN locals' ELSE after[3]]

ApplicationStart(line) ==
    /\ CanRead
    /\ YieldsEvent(line, "SparkListenerApplicationStart")
    /\ Branch(line, TRUE,
              [ r \in 1..3 |-> OnApplicationStart(<<locals, shadow, twin.locals>>[r], EventOf(line)) ])
    /\ UNCHANGED <<pc, result, dropped, shadowResult, legacyResult, sameDraws, thresholds, findings>>
    /\ UNCHANGED reportVars

ApplicationEnd(line) ==
    /\ CanRead
    /\ YieldsEvent(line, "SparkListenerApplicationEnd")
    /\ Branch(line, TRUE,
              [ r \in 1..3 |-> OnApplicationEnd(<<locals, shadow, twin.locals>>[r], EventOf(line)) ])
    /\ UNCHANGED <<pc, result, dropped, shadowResult, legacyResult, sameDraws, thresholds, findings>>
    /\ UNCHANGED reportVars

StageSubmitted(line) ==
    /\ CanRead
    /\ YieldsEvent(line, "SparkListenerStageSubmitted")
    /\ Branch(line, TRUE,
              [ r \in 1..3 |-> OnStageSubmitted(<<locals, shadow, twin.locals>>[r], EventOf(line)) ])
    /\ UNCHANGED <<pc, result, dropped, shadowResult, legacyResult, sameDraws, thresholds, findings>>
    /\ UNCHANGED reportVars

StageCompleted(line) ==
    /\ CanRead
    /\ YieldsEvent(line, "SparkListenerStageCompleted")
    /\ Branch(line, TRUE,
              [ r \in 1..3 |-> OnStageCompleted(<<locals, shadow, twin.locals>>[r], EventOf(line)) ])
    /\ UNCHANGED <<pc, result, dropped, shadowResult, legacyResult, sameDraws, thresholds, findings>>
    /\ UNCHANGED reportVars

\* a TaskEnd whose stage has an aggregator; j is the random draw of add_task
\* in this run and in the shadow run, k the draw in the twin run
TaskEnd(line) ==
    /\ CanRead
    /\ YieldsEvent(line, "SparkListenerTaskEnd")
    /\ Hashable(TaskStageId(EventOf(line)))
    /\ HasStage(locals.stages, TaskStageId(EventOf(line)))
    /\ \E j \in RandomDraws(locals.stages[StageIndex(locals.stages,
                                                     TaskStageId(EventOf(line)))]) :
       \E k \in RandomDraws(twin.locals.stages[StageIndex(twin.locals.stages,
                                                          TaskStageId(EventOf(line)))]) :
          /\ Branch(line, k = j,
                    [ r \in 1..3 |-> OnTaskEnd(<<locals, shadow, twin.locals>>[r],
                                               EventOf(line), <<j, j, k>>[r]) ])
          /\ sameDraws' = (sameDraws /\ j = k)
    /\ UNCHANGED <<pc, result, dropped, shadowResult, legacyResult, thresholds, findings>>
    /\ UNCHANGED reportVars

\* a TaskEnd whose stage has no aggregator; the second run does not see it
TaskEndUnknownStage(line) ==
    LET Dropped(after) ==
            /\ locals' = after[1]
            /\ ~Raises(locals')
            /\ twin' = [twin EXCEPT !.locals = IF @ = locals THEN locals' ELSE after[3]]
    IN  /\ CanRead
        /\ YieldsEvent(line, "SparkListenerTaskEnd")
        /\ Hashable(TaskStageId(EventOf(line)))
        /\ ~HasStage(locals.stages, TaskStageId(EventOf(line)))
        /\ Dropped([ r \in {1, 3} |-> OnTaskEnd(<<locals, shadow, twin.locals>>[r],
                                                EventOf(line), 0) ])
        /\ Consumed(line)
        /\ dropped' = Append(dropped, EventOf(line))
        /\ UNCHANGED <<pc, result, shadow, shadowResult, legacyResult, sameDraws,
                       thresholds, findings>>
        /\ UNCHANGED reportVars

ExecutorAdded(line) ==
    /\ CanRead
    /\ YieldsEvent(line, "SparkListenerExecutorAdded")
    /\ Branch(line, TRUE,
              [ r \in 1..3 |-> OnExecutorAdded(<<locals, shadow, twin.locals>>[r], EventOf(line)) ])
    /\ UNCHANGED <<pc, result, dropped, shadowResult, legacyResult, sameDraws, thresholds, findings>>
    /\ UNCHANGED reportVars

\* any other event type, or a dict without "Event": no branch is taken
IgnoredEvent(line) ==
    LET
        HandledEventTypes ==
            { "SparkListenerApplicationStart", "SparkListenerApplicationEnd",
              "SparkListenerStageSubmitted", "SparkListenerStageCompleted",
              "SparkListenerTaskEnd", "SparkListenerExecutorAdded" }
    IN
        /\ CanRead
        /\ ReadEventsStreamingLine(line) # <<>>
        /\ ~Raises(ReadEventsStreamingLine(line)[1])
        /\ ReadEventsStreamingLine(line)[1].isdict
        /\ \A type \in HandledEventTypes : ~EventIs(EventOf(line), type)
        /\ Consumed(line)
        /\ UNCHANGED <<pc, locals, result, dropped, shadow, shadowResult, legacyResult,
                       twin, sameDraws, thresholds, findings>>
        /\ UNCHANGED reportVars

\* end of file: freeze, sort, totals and validation.  The run, the second
\* run and the twin run each get the list list(executors) makes of their own
\* executor set.  The order of that list depends on the hash seed of the
\* process and on the order in which the ids were added: the second run,
\* which is in the process of the run but does not add the ids of the dropped
\* TaskEnds, lists as the run does only when it has added the same ids in the
\* same order, and the twin run, in another process, only by chance.  The
\* legacy parser adds the same executor ids to its set in the same order and
\* in the same process, and so lists them as the run does.  A run whose
\* locals are those of another returns what the other returns on the same
\* list.
Finish ==
    LET \* built[r][order]: what the run (r = 1), the second run (r = 2) and
        \* the twin run (r = 3) return when list(executors) enumerates their
        \* executors in the given order
        Return(order, built) ==
            /\ result' = built[1][order]
            /\ \E second \in IF shadow = locals THEN {order}
                             ELSE Orders(Len(shadow.executors)) :
                  shadowResult' = IF shadow = locals THEN result' ELSE built[2][second]
            /\ \E other \in Orders(Len(twin.locals.executors)) :
                  twin' = [twin EXCEPT !.result =
                             IF twin.locals = locals /\ other = order THEN result'
                             ELSE built[3][other]]
    IN  /\ pc = "reading"
        /\ pc' = "done"
        /\ \E order \in Orders(Len(locals.executors)) :
             /\ Return(order,
                       [ r \in 1..3 |->
                           [ other \in Orders(Len(<<locals, shadow, twin.locals>>[r].executors)) |->
                           BuildMetrics(<<locals, shadow, twin.locals>>[r],
                                        ListOfSet(<<locals, shadow, twin.locals>>[r].executors,
                                                  other)) ] ])
             /\ legacyResult' = ExtractMetricsLegacy(LegacyLocals(yielded),
                                                     ListOfSet(locals.executors, order))
        /\ UNCHANGED <<locals, file, yielded, dropped, shadow, sameDraws, thresholds, findings>>
        /\ UNCHANGED reportVars

\* the ThresholdConfig objects analyze() is called with after a parse
ParseThresholds ==
    { DefaultThresholds,
      [ DefaultThresholds EXCEPT
          !.skew_ratio                           = Ratio(3, 2),
          !.shuffle_explosion_ratio              = Ratio(3, 2),
          !.min_spill_mb                         = 0,
          !.min_tasks_for_inefficiency           = 1,
          !.max_task_runtime_ms_for_inefficiency = 1000,
          !.max_result_size_mb                   = 0,
          !.max_scheduling_delay_ms              = 0 ] }

\* the ThresholdConfig objects the detectors are given on the sample metrics
ThresholdSamples ==
    { DefaultThresholds,
      [ DefaultThresholds EXCEPT
          !.skew_ratio                           = Ratio(3, 2),
          !.shuffle_explosion_ratio              = Ratio(3, 2),
          !.min_spill_mb                         = 0,
          !.min_tasks_for_inefficiency           = 1,
          !.max_task_runtime_ms_for_inefficiency = 1000,
          !.max_result_size_mb                   = 0,
          !.max_scheduling_delay_ms              = 0 ],
      [ DefaultThresholds EXCEPT
          !.skew_ratio                           = Ratio(5, 2),
          !.shuffle_explosion_ratio              = Ratio(2, 1),
          !.min_spill_mb                         = 1,
          !.min_tasks_for_inefficiency           = 2,
          !.max_task_runtime_ms_for_inefficiency = 70000,
          !.max_result_size_mb                   = 1,
          !.max_scheduling_delay_ms              = 10 ] }

\* analyze() after a parse that returned: _run_detectors(metrics, thresholds);
\* the twin run is analyzed with the same thresholds
AnalyzeDetect(t) ==
    /\ pc = "done"
    /\ result.status = "ok"
    /\ pc' = "analyzed"
    /\ thresholds' = t
    /\ findings' = RunDetectors(result.metrics, t)
    /\ twin' = [twin EXCEPT !.findings =
                  IF twin.result.status = "ok"
                  THEN RunDetectors(twin.result.metrics, t) ELSE <<>>]
    /\ UNCHANGED <<locals, result, file, yielded, dropped, shadow, shadowResult, legacyResult, sameDraws>>
    /\ UNCHANGED reportVars

(***************************************************************************)
(* The logs explored.  Each specification reads a log of at most MaxLines  *)
(* lines drawn from its own alphabet; every alphabet holds at least one    *)
(* line for every branch of the loop.                                      *)
(***************************************************************************)
BlankLine == [ws |-> TRUE, kind |-> "empty", value |-> EmptyDict]

GarbageLine == [ws |-> FALSE, kind |-> "garbage", value |-> EmptyDict]

\* a line holding an integer of 5000 digits: json.loads raises ValueError
UnreadableLine == [ws |-> FALSE, kind |-> "raises", value |-> "ValueError"]

\* a JSON array
ScalarLine == [ws |-> FALSE, kind |-> "scalar", value |-> <<1, 2>>]

ObjectLine(d) == [ws |-> FALSE, kind |-> "object", value |-> d]

AppStartEvent(id, ts) ==
    ("Event" :> "SparkListenerApplicationStart") @@ ("App ID" :> id)
        @@ ("App Name" :> "Test App") @@ ("Timestamp" :> ts)

\* as in test_parse_malformed_lines: no App Name, no Timestamp
AppStartNoTimestamp == ("Event" :> "SparkListenerApplicationStart") @@ ("App ID" :> "test")

AppEndEvent(ts) == ("Event" :> "SparkListenerApplicationEnd") @@ ("Timestamp" :> ts)

AppEndNoTimestamp == ("Event" :> "SparkListenerApplicationEnd")

StageSubmittedEvent(id, ts) ==
    ("Event" :> "SparkListenerStageSubmitted") @@ ("Timestamp" :> ts)
        @@ ("Stage Info" :> (("Stage ID" :> id) @@ ("Stage Name" :> "map")
                              @@ ("Number of Tasks" :> 4)))

StageCompletedEvent(id, ts, failed) ==
    ("Event" :> "SparkListenerStageCompleted") @@ ("Timestamp" :> ts)
        @@ ("Stage Info" :> (("Stage ID" :> id) @@ ("Number of Failed Tasks" :> failed)))

FullTaskMetrics ==
    ("Input Metrics" :> (("Bytes Read" :> 10) @@ ("Records Read" :> 1)))
        @@ ("Output Metrics" :> (("Bytes Written" :> 7) @@ ("Records Written" :> 2)))
        @@ ("Shuffle Read Metrics" :> (("Remote Bytes Read" :> 3) @@ ("Local Bytes Read" :> 4)))
        @@ ("Shuffle Write Metrics" :> ("Shuffle Bytes Written" :> 5))
        @@ ("Memory Bytes Spilled" :> 6) @@ ("Disk Bytes Spilled" :> 8)

TaskEndEvent(id, executor, launch, finish, failed, task_metrics) ==
    ("Event" :> "SparkListenerTaskEnd") @@ ("Stage ID" :> id)
        @@ ("Task Info" :> (("Executor ID" :> executor) @@ ("Launch Time" :> launch)
                             @@ ("Finish Time" :> finish) @@ ("Failed" :> failed)))
        @@ ("Task Metrics" :> task_metrics)

\* no Stage ID (so stage 0), no Executor ID, no Failed, no Task Metrics,
\* Finish Time before Launch Time
TaskEndBare ==
    ("Event" :> "SparkListenerTaskEnd")
        @@ ("Task Info" :> (("Launch Time" :> 900) @@ ("Finish Time" :> 300)))

ExecutorAddedEvent(id) == ("Event" :> "SparkListenerExecutorAdded") @@ ("Executor ID" :> id)

OtherEvent == ("Event" :> "SparkListenerJobStart")

\* the reader and the application-level fields, with lines whose values are
\* not of the types Spark writes
LinesApp ==
    LET
        PaddedObjectLine(d) == [ws |-> TRUE, kind |-> "object", value |-> d]

        \* a Stage ID that is a JSON object
        StageSubmittedObjectId ==
            ("Event" :> "SparkListenerStageSubmitted")
                @@ ("Stage Info" :> ("Stage ID" :> ("a" :> 1)))

        \* a Stage Name that is a number
        StageSubmittedNumberName ==
            ("Event" :> "SparkListenerStageSubmitted")
                @@ ("Stage Info" :> (("Stage ID" :> 0) @@ ("Stage Name" :> 5)))

        \* an Executor ID that is a JSON array
        TaskEndArrayExecutor ==
            ("Event" :> "SparkListenerTaskEnd") @@ ("Task Info" :> ("Executor ID" :> <<1>>))
    IN
        { BlankLine, GarbageLine, ScalarLine, UnreadableLine,
          ObjectLine(StageSubmittedObjectId),
          ObjectLine(StageSubmittedNumberName),
          ObjectLine(TaskEndArrayExecutor),
          ObjectLine(AppStartEvent("app-123", 10)),
          PaddedObjectLine(AppStartNoTimestamp),
          ObjectLine(AppEndEvent(20)),
          ObjectLine(AppEndEvent(5)),
          ObjectLine(AppEndNoTimestamp),
          ObjectLine(StageSubmittedEvent(0, 10)),
          ObjectLine(StageCompletedEvent(0, 5, 0)),
          ObjectLine(TaskEndEvent(0, "1", 100, 500, FALSE, FullTaskMetrics)),
          ObjectLine(ExecutorAddedEvent("2")),
          ObjectLine(OtherEvent) }

\* several stages, their tasks and completions
LinesStages ==
    LET
        \* no Timestamp, no Stage Name, no Number of Tasks
        StageSubmittedBare(id) ==
            ("Event" :> "SparkListenerStageSubmitted") @@ ("Stage Info" :> ("Stage ID" :> id))

        \* a Stage ID that is a JSON string
        StageSubmittedText ==
            ("Event" :> "SparkListenerStageSubmitted")
                @@ ("Stage Info" :> (("Stage ID" :> "0") @@ ("Stage Name" :> "text")))

        \* as the second task of tests/test_parser.py: most fields missing
        PartialTaskMetrics ==
            ("Input Metrics" :> ("Bytes Read" :> 12))
                @@ ("Shuffle Read Metrics" :> ("Local Bytes Read" :> 2))
                @@ ("Shuffle Write Metrics" :> ("Shuffle Bytes Written" :> 6))
    IN
        { BlankLine, ScalarLine,
          ObjectLine(AppStartEvent("app-123", 10)),
          ObjectLine(AppEndEvent(20)),
          ObjectLine(StageSubmittedEvent(1, 10)),
          ObjectLine(StageSubmittedBare(0)),
          ObjectLine(StageSubmittedText),
          ObjectLine(StageCompletedEvent(1, 20, 0)),
          ObjectLine(StageCompletedEvent(0, 5, 1)),
          ObjectLine(TaskEndEvent(1, "1", 100, 500, FALSE, FullTaskMetrics)),
          ObjectLine(TaskEndEvent(0, "1", 100, 600, TRUE, PartialTaskMetrics)),
          ObjectLine(TaskEndBare),
          ObjectLine(ExecutorAddedEvent("1")),
          ObjectLine(OtherEvent) }

\* one stage and tasks of several durations, enough to overflow the reservoir
LinesReservoir ==
    { GarbageLine, ScalarLine,
      ObjectLine(AppStartNoTimestamp),
      ObjectLine(AppEndNoTimestamp),
      ObjectLine(StageSubmittedEvent(0, 10)),
      ObjectLine(StageCompletedEvent(0, 20, 0)),
      ObjectLine(TaskEndEvent(0, "1", 100, 500, FALSE, EmptyDict)),
      ObjectLine(TaskEndEvent(0, "1", 100, 600, FALSE, EmptyDict)),
      ObjectLine(TaskEndEvent(0, "1", 100, 107, FALSE, EmptyDict)),
      ObjectLine(TaskEndBare),
      ObjectLine(ExecutorAddedEvent("1")),
      ObjectLine(OtherEvent) }

Next ==
    \/ \E line \in LinesApp : SkipLine(line)
    \/ \E line \in LinesApp : LineRaises(line)
    \/ \E line \in LinesApp : ApplicationStart(line)
    \/ \E line \in LinesApp : ApplicationEnd(line)
    \/ \E line \in LinesApp : StageSubmitted(line)
    \/ \E line \in LinesApp : StageCompleted(line)
    \/ \E line \in LinesApp : TaskEnd(line)
    \/ \E line \in LinesApp : TaskEndUnknownStage(line)
    \/ \E line \in LinesApp : ExecutorAdded(line)
    \/ \E line \in LinesApp : IgnoredEvent(line)
    \/ Finish
    \/ \E t \in ParseThresholds : AnalyzeDetect(t)

Spec == Init /\ [][Next]_vars

NextStages ==
    \/ \E line \in LinesStages : SkipLine(line)
    \/ \E line \in LinesStages : LineRaises(line)
    \/ \E line \in LinesStages : ApplicationStart(line)
    \/ \E line \in LinesStages : ApplicationEnd(line)
    \/ \E line \in LinesStages : StageSubmitted(line)
    \/ \E line \in LinesStages : StageCompleted(line)
    \/ \E line \in LinesStages : TaskEnd(line)
    \/ \E line \in LinesStages : TaskEndUnknownStage(line)
    \/ \E line \in LinesStages : ExecutorAdded(line)
    \/ \E line \in LinesStages : IgnoredEvent(line)
    \/ Finish
    \/ \E t \in ParseThresholds : AnalyzeDetect(t)

SpecStages == Init /\ [][NextStages]_vars

NextReservoir ==
    \/ \E line \in LinesReservoir : SkipLine(line)
    \/ \E line \in LinesReservoir : LineRaises(line)
    \/ \E line \in LinesReservoir : ApplicationStart(line)
    \/ \E line \in LinesReservoir : ApplicationEnd(line)
    \/ \E line \in LinesReservoir : StageSubmitted(line)
    \/ \E line \in LinesReservoir : StageCompleted(line)
    \/ \E line \in LinesReservoir : TaskEnd(line)
    \/ \E line \in LinesReservoir : TaskEndUnknownStage(line)
    \/ \E line \in LinesReservoir : ExecutorAdded(line)
    \/ \E line \in LinesReservoir : IgnoredEvent(line)
    \/ Finish
    \/ \E t \in ParseThresholds : AnalyzeDetect(t)

SpecReservoir == Init /\ [][NextReservoir]_vars

\* stages stamped at time 0 (timestamps relative to the start of the job) and
\* later
LinesTimes ==
    { BlankLine, ScalarLine,
      ObjectLine(AppStartEvent("app-123", 0)),
      ObjectLine(AppEndEvent(20)),
      ObjectLine(StageSubmittedEvent(0, 0)),
      ObjectLine(StageSubmittedEvent(1, 10)),
      ObjectLine(StageCompletedEvent(0, 20, 0)),
      ObjectLine(StageCompletedEvent(0, 0, 0)),
      ObjectLine(StageCompletedEvent(1, 20, 0)),
      ObjectLine(TaskEndEvent(1, "1", 100, 500, FALSE, FullTaskMetrics)),
      ObjectLine(ExecutorAddedEvent("1")),
      ObjectLine(OtherEvent) }

NextTimes ==
    \/ \E line \in LinesTimes : SkipLine(line)
    \/ \E line \in LinesTimes : LineRaises(line)
    \/ \E line \in LinesTimes : ApplicationStart(line)
    \/ \E line \in LinesTimes : ApplicationEnd(line)
    \/ \E line \in LinesTimes : StageSubmitted(line)
    \/ \E line \in LinesTimes : StageCompleted(line)
    \/ \E line \in LinesTimes : TaskEnd(line)
    \/ \E line \in LinesTimes : TaskEndUnknownStage(line)
    \/ \E line \in LinesTimes : ExecutorAdded(line)
    \/ \E line \in LinesTimes : IgnoredEvent(line)
    \/ Finish
    \/ \E t \in ParseThresholds : AnalyzeDetect(t)

SpecTimes == Init /\ [][NextTimes]_vars

\* one stage and tasks whose durations no float holds.  The detectors are
\* modelled on metrics below 2^31 and are not run on these logs.
LinesWide ==
    { BlankLine, ScalarLine,
      ObjectLine(AppStartNoTimestamp),
      ObjectLine(AppEndNoTimestamp),
      ObjectLine(StageSubmittedEvent(0, 10)),
      ObjectLine(StageCompletedEvent(0, 20, 0)),
      \* Finish Time 2^53 + 1 = 9007199254740993
      ObjectLine(TaskEndEvent(0, "1", 0, PyInt(FALSE, <<1, 0, 0, 2048>>), FALSE, EmptyDict)),
      \* Finish Time 2^53 + 3 = 9007199254740995
      ObjectLine(TaskEndEvent(0, "1", 0, PyInt(FALSE, <<3, 0, 0, 2048>>), FALSE, EmptyDict)),
      ObjectLine(ExecutorAddedEvent("1")),
      ObjectLine(OtherEvent) }

NextWide ==
    \/ \E line \in LinesWide : SkipLine(line)
    \/ \E line \in LinesWide : LineRaises(line)
    \/ \E line \in LinesWide : ApplicationStart(line)
    \/ \E line \in LinesWide : ApplicationEnd(line)
    \/ \E line \in LinesWide : StageSubmitted(line)
    \/ \E line \in LinesWide : StageCompleted(line)
    \/ \E line \in LinesWide : TaskEnd(line)
    \/ \E line \in LinesWide : TaskEndUnknownStage(line)
    \/ \E line \in LinesWide : ExecutorAdded(line)
    \/ \E line \in LinesWide : IgnoredEvent(line)
    \/ Finish

SpecWide == Init /\ [][NextWide]_vars

(***************************************************************************)
(* The detectors on metrics handed to them directly, as tests/             *)
(* test_detectors.py does.  The sample metrics are SparkMetrics objects    *)
(* whose totals are the sums over their stages; each family varies the     *)
(* fields one detector reads around its thresholds.                        *)
(***************************************************************************)
\* a stage without tasks, as the parser freezes it
SampleStage(id) ==
    [ stage_id                |-> id,
      stage_name              |-> "stage",
      num_tasks               |-> 0,
      submission_time_ms      |-> None,
      completion_time_ms      |-> None,
      duration_ms             |-> 0,
      task_duration_min_ms    |-> 0,
      task_duration_max_ms    |-> 0,
      task_duration_median_ms |-> 0,
      task_duration_p75_ms    |-> 0,
      task_duration_p90_ms    |-> 0,
      task_duration_p99_ms    |-> 0,
      input_bytes             |-> 0,
      input_records           |-> 0,
      output_bytes            |-> 0,
      output_records          |-> 0,
      shuffle_read_bytes      |-> 0,
      shuffle_write_bytes     |-> 0,
      memory_bytes_spilled    |-> 0,
      disk_bytes_spilled      |-> 0,
      num_failed_tasks        |-> 0 ]

\* the SparkMetrics the parser builds over the given stages, with three
\* executors; the arguments are well typed, so the constructor stores them
\* as they are
SampleMetrics(stages) ==
    SparkMetricsArgs([InitLocals EXCEPT !.app_id    = "app-1",
                                        !.stages    = stages,
                                        !.executors = <<"1", "2", "3">>],
                     stages, <<"1", "2", "3">>)

MetricsSamples ==
    LET
        SkewSamples ==
            { SampleMetrics(<< [SampleStage(0) EXCEPT !.num_tasks = n,
                                                      !.task_duration_median_ms = m,
                                                      !.task_duration_max_ms = x] >>) :
                n \in {9, 10, 100}, m \in {0, 100, 200},
                x \in {149, 150, 250, 300, 301, 500, 501, 999, 1000, 2000, 2001, 4000, 4001, 5000} }

        ShuffleSamples ==
            { SampleMetrics(<< [SampleStage(3) EXCEPT !.input_bytes = i,
                                                      !.shuffle_write_bytes = w,
                                                      !.shuffle_read_bytes = r] >>) :
                i \in {0, 10, MB}, r \in {0, 50},
                w \in {0, 14, 15, 20, 30, 31, 40, 41, 49, 50, 100, 101,
                       5 * MB, 10 * MB, 10 * MB + 1, 100 * MB} }

        SpillSamples ==
            { SampleMetrics(<< [SampleStage(0) EXCEPT !.disk_bytes_spilled = d] >>) :
                d \in {0, 1, MB - 1, MB, 3 * MB, 3 * MB + 1, 5 * MB - 1, 5 * MB, 10 * MB, 10 * MB + 1,
                       100 * MB - 1, 100 * MB, 300 * MB, 300 * MB + 1, 500 * MB - 1, 500 * MB,
                       1000 * MB, 1000 * MB + 1} }

        SpillTotalSamples ==
            { SampleMetrics(<< [SampleStage(1) EXCEPT !.disk_bytes_spilled = a],
                               [SampleStage(4) EXCEPT !.disk_bytes_spilled = b],
                               [SampleStage(6) EXCEPT !.disk_bytes_spilled = c] >>) :
                a \in {0, 2 * MB, 3 * MB}, b \in {0, 1, 2 * MB}, c \in {0, MB - 1, 2 * MB} }

        PartitionSamples ==
            { SampleMetrics(<< [SampleStage(0) EXCEPT !.num_tasks = n,
                                                      !.task_duration_median_ms = m,
                                                      !.task_duration_max_ms = m] >>) :
                n \in {0, 1, 2, 9, 10, 15, 199, 200, 500},
                m \in {0, 50, 100, 101, 1000, 60000, 60001, 70000, 70001} }

        IOSamples ==
            { SampleMetrics(<< [SampleStage(2) EXCEPT !.duration_ms = d,
                                                      !.num_tasks = n,
                                                      !.shuffle_read_bytes = r,
                                                      !.input_bytes = i,
                                                      !.task_duration_median_ms = m,
                                                      !.task_duration_max_ms = m] >>) :
                d \in {0, 1000}, n \in {0, 1, 2},
                r \in {0, 100 * MB, 100 * MB + 1, 200 * MB, 200 * MB + 1},
                i \in {0, 500 * MB, 500 * MB + 1, 1000 * MB + 1},
                m \in {10000, 10001, 30000, 30001} }

        \* the output sizes and timings of the driver samples
        DriverStageSamples(id) ==
            { [SampleStage(id) EXCEPT !.output_bytes = o] : o \in {0, MB + 1, 50 * MB, 50 * MB + 1} }
              \cup { [SampleStage(id) EXCEPT !.num_tasks = 1, !.task_duration_max_ms = 10,
                                             !.duration_ms = 2000] }

        DriverSamples ==
            { SampleMetrics(<<a>>) : a \in DriverStageSamples(4) }
              \cup { SampleMetrics(<<a, b>>) : a \in DriverStageSamples(0), b \in DriverStageSamples(3) }
              \cup { SampleMetrics(<<a, b, c>>) :
                       a \in DriverStageSamples(0), b \in DriverStageSamples(1),
                       c \in DriverStageSamples(2) }
              \cup { SampleMetrics(<<a, b, c, d>>) :
                       a \in DriverStageSamples(0), b \in DriverStageSamples(2),
                       c \in DriverStageSamples(5), d \in DriverStageSamples(9) }
    IN  { SampleMetrics(<<>>) } \cup SkewSamples \cup ShuffleSamples \cup SpillSamples
          \cup SpillTotalSamples \cup PartitionSamples \cup IOSamples \cup DriverSamples

\* _run_detectors is about to be called on sample metrics; nothing was parsed
InitDetect ==
    /\ pc = "done"
    /\ locals = InitLocals
    /\ result \in { Returned(m) : m \in MetricsSamples }
    /\ file = <<>>
    /\ yielded = <<>>
    /\ dropped = <<>>
    /\ shadow = InitLocals
    /\ shadowResult = result
    /\ legacyResult = NoResult
    /\ twin = [locals |-> InitLocals, result |-> result, findings |-> <<>>]
    /\ sameDraws = TRUE
    /\ thresholds = DefaultThresholds
    /\ findings = <<>>
    /\ run = NoRun
    /\ view = NoView
    /\ report = NoReport

NextDetect == \E t \in ThresholdSamples : AnalyzeDetect(t)

SpecDetect == InitDetect /\ [][NextDetect]_vars

(***************************************************************************)
(* The detectors called one at a time, in any order, on one metrics object *)
(* and one ThresholdConfig, as the loop of _run_detectors does in list     *)
(* order.  Every call is given the two objects as the calls before it left *)
(* them.                                                                   *)
(***************************************************************************)
\* the detectors called so far
Called == { run.calls[i].detector : i \in 1..Len(run.calls) }

\* the findings added to the collection so far, in call order
Collected == Flatten([i \in 1..Len(run.calls) |-> run.calls[i].findings])

\* the first call of a detector; its findings are added to the collection
Detect(name) ==
    /\ pc = "done"
    /\ result.status = "ok"
    /\ name \notin Called
    /\ LET out == DetectorCall(name, run.metrics, run.thresholds)
       IN  run' = [ metrics    |-> out.metrics,
                    thresholds |-> out.thresholds,
                    calls      |-> Append(run.calls,
                                          [detector |-> name, findings |-> out.findings]),
                    again      |-> <<>> ]
    /\ UNCHANGED <<pc, locals, result, file, yielded, dropped, shadow, shadowResult, legacyResult,
                   twin, sameDraws, thresholds, findings, view, report>>

\* a further call of a detector that was already called
DetectAgain(name) ==
    /\ pc = "done"
    /\ result.status = "ok"
    /\ name \in Called
    /\ LET out == DetectorCall(name, run.metrics, run.thresholds)
       IN  run' = [ run EXCEPT !.metrics    = out.metrics,
                               !.thresholds = out.thresholds,
                               !.again      = << [detector |-> name,
                                                  findings |-> out.findings] >> ]
    /\ UNCHANGED <<pc, locals, result, file, yielded, dropped, shadow, shadowResult, legacyResult,
                   twin, sameDraws, thresholds, findings, view, report>>

\* a stage that is skewed and spills
SkewedSpillingStage(id) ==
    [ SampleStage(id) EXCEPT !.num_tasks = 100, !.task_duration_median_ms = 100,
                             !.task_duration_max_ms = 5000,
                             !.disk_bytes_spilled = 1000 * MB + 1 ]

\* a stage whose shuffle output is ten times its input
ExplodingStage(id) ==
    [ SampleStage(id) EXCEPT !.input_bytes = 10, !.shuffle_write_bytes = 100 ]

\* a stage of one long task that reads much shuffle data and much input
IOBoundStage(id) ==
    [ SampleStage(id) EXCEPT !.duration_ms = 1000, !.num_tasks = 1,
                             !.shuffle_read_bytes = 100 * MB + 1,
                             !.input_bytes = 500 * MB + 1,
                             !.task_duration_median_ms = 30001,
                             !.task_duration_max_ms = 30001 ]

\* a stage with a large output
LargeResultStage(id) == [ SampleStage(id) EXCEPT !.output_bytes = 50 * MB + 1 ]

\* the loop of _run_detectors is about to start on sample metrics
InitOrder ==
    LET
        OrderSamples ==
            { SampleMetrics(<<>>),
              SampleMetrics(<< IOBoundStage(5) >>),
              SampleMetrics(<< SkewedSpillingStage(0), LargeResultStage(9) >>),
              SampleMetrics(<< SkewedSpillingStage(0), ExplodingStage(2), IOBoundStage(5),
                               LargeResultStage(9) >>) }
    IN
        /\ pc = "done"
        /\ locals = InitLocals
        /\ result \in { Returned(m) : m \in OrderSamples }
        /\ file = <<>>
        /\ yielded = <<>>
        /\ dropped = <<>>
        /\ shadow = InitLocals
        /\ shadowResult = result
        /\ legacyResult = NoResult
        /\ twin = [locals |-> InitLocals, result |-> result, findings |-> <<>>]
        /\ sameDraws = TRUE
        /\ thresholds \in ThresholdSamples
        /\ findings = <<>>
        /\ run = [ NoRun EXCEPT !.metrics = result.metrics, !.thresholds = thresholds ]
        /\ view = NoView
        /\ report = NoReport

NextOrder ==
    \/ \E name \in Range(DetectorNames) : Detect(name)
    \/ \E name \in Range(DetectorNames) : DetectAgain(name)

SpecOrder == InitOrder /\ [][NextOrder]_vars

(***************************************************************************)
(* A FindingCollection filled and queried by hand (Report.add_finding,     *)
(* the views, Report.to_dict).                                             *)
(***************************************************************************)
FindingSamples ==
    { Finding("skew-stage-0", "skew", "critical", <<0>>, None),
      Finding("skew-stage-1", "skew", "warning", <<1>>, None),
      Finding("spill-stage-0", "spill", "info", <<0>>, None),
      Finding("spill-total", "spill", "warning", <<0, 1>>, None),
      Finding("shuffle-explosion-global", "shuffle", "warning", <<>>, None),
      Finding("io-input-stage-1", "io", "info", <<1>>, None) }

\* collection.add(finding)
Add(finding) ==
    /\ pc = "analyzed"
    /\ Len(findings) < MaxFindings
    /\ LET out == CollectionCall(findings, "add", finding)
       IN  /\ findings' = out.findings
           /\ view' = [method |-> "add", arg |-> finding, result |-> out.result]
    /\ UNCHANGED <<pc, locals, result, file, yielded, dropped, shadow, shadowResult, legacyResult,
                   twin, sameDraws, thresholds, run, report>>

\* one of the methods that read the collection
Query(method, arg) ==
    /\ pc = "analyzed"
    /\ LET out == CollectionCall(findings, method, arg)
       IN  /\ findings' = out.findings
           /\ view' = [method |-> method, arg |-> arg, result |-> out.result]
    /\ UNCHANGED <<pc, locals, result, file, yielded, dropped, shadow, shadowResult, legacyResult,
                   twin, sameDraws, thresholds, run, report>>

\* a Report over metrics without stages, its collection still empty
InitCollection ==
    /\ pc = "analyzed"
    /\ locals = InitLocals
    /\ result = Returned(SampleMetrics(<<>>))
    /\ file = <<>>
    /\ yielded = <<>>
    /\ dropped = <<>>
    /\ shadow = InitLocals
    /\ shadowResult = result
    /\ legacyResult = NoResult
    /\ twin = [locals |-> InitLocals, result |-> result, findings |-> <<>>]
    /\ sameDraws = TRUE
    /\ thresholds = DefaultThresholds
    /\ findings = <<>>
    /\ run = NoRun
    /\ view = NoView
    /\ report = NoReport

NextCollection ==
    \/ \E finding \in FindingSamples : Add(finding)
    \/ Query("sorted_by_severity", None)
    \/ \E severity \in {"critical", "warning", "info"} : Query("by_severity", severity)
    \/ \E detector \in Range(DetectorNames) : Query("by_detector", detector)
    \/ \E stage_id \in 0..2 : Query("by_stage", stage_id)
    \/ Query("to_dict", None)

SpecCollection == InitCollection /\ [][NextCollection]_vars

(***************************************************************************)
(* analyze() with and without an explainer.                                *)
(***************************************************************************)
\* what a request to the client library can do
ClientOutcomes ==
    { [raised |-> FALSE, ws |-> TRUE,  text |-> "Repartition the stage."],
      [raised |-> TRUE,  ws |-> FALSE, text |-> "connection refused"],
      [raised |-> TRUE,  ws |-> FALSE, text |-> "model not found"] }

\* analyze(path, llm_provider=provider) from the Report on
Explain(provider, outcomes) ==
    /\ pc = "analyzed"
    /\ pc' = "reported"
    /\ report' = AddLLMExplanations(findings, provider, outcomes)
                    @@ [provider |-> Some(provider), outcomes |-> outcomes]
    /\ UNCHANGED <<locals, result, file, yielded, dropped, shadow, shadowResult, legacyResult,
                   twin, sameDraws, thresholds, findings, run, view>>

\* analyze(path): llm_provider is None
ReturnReport ==
    /\ pc = "analyzed"
    /\ pc' = "reported"
    /\ report' = NewReport(findings) @@ [provider |-> None, outcomes |-> <<>>]
    /\ UNCHANGED <<locals, result, file, yielded, dropped, shadow, shadowResult, legacyResult,
                   twin, sameDraws, thresholds, findings, run, view>>

\* analyze() has parsed sample metrics
InitExplain ==
    LET
        ExplainSamples ==
            { SampleMetrics(<<>>),
              SampleMetrics(<< IOBoundStage(5) >>),
              SampleMetrics(<< SkewedSpillingStage(0), LargeResultStage(9) >>) }
    IN
        /\ pc = "done"
        /\ locals = InitLocals
        /\ result \in { Returned(m) : m \in ExplainSamples }
        /\ file = <<>>
        /\ yielded = <<>>
        /\ dropped = <<>>
        /\ shadow = InitLocals
        /\ shadowResult = result
        /\ legacyResult = NoResult
        /\ twin = [locals |-> InitLocals, result |-> result, findings |-> <<>>]
        /\ sameDraws = TRUE
        /\ thresholds = DefaultThresholds
        /\ findings = <<>>
        /\ run = NoRun
        /\ view = NoView
        /\ report = NoReport

NextExplain ==
    \/ \E t \in ThresholdSamples : AnalyzeDetect(t)
    \/ \E provider \in Providers :
          \E outcomes \in [1..(Len(findings) + 1) -> ClientOutcomes] :
             Explain(provider, outcomes)
    \/ ReturnReport

SpecExplain == InitExplain /\ [][NextExplain]_vars

TypeOK ==
    /\ pc \in {"reading", "done", "analyzed", "reported"}
    /\ ThresholdsValid(thresholds)
    /\ result.status \in {"none", "ok", "raised"}
    /\ Len(file) <= MaxLines
    /\ (pc = "reading") = (result.status = "none")

(***************************************************************************)
(* What the log says, computed from the histories alone.  These operators  *)
(* state the expected values of the properties below; they do not use the  *)
(* aggregator.                                                             *)
(***************************************************************************)
\* the dicts yielded so far, in order
Log == LET Yielded(y) == y.isdict
           dicts == SelectSeq(yielded, Yielded)
       IN  [i \in 1..Len(dicts) |-> dicts[i].value]

\* d[path[1]][path[2]]..., 0 as soon as a key is missing
RECURSIVE PathGet(_, _)
PathGet(d, path) ==
    IF path = <<>> THEN d
    ELSE IF Head(path) \in DOMAIN d THEN PathGet(d[Head(path)], Tail(path))
    ELSE 0

IsEvent(e, type) == "Event" \in DOMAIN e /\ e["Event"] = type

\* the stage id an event names, as the JSON value of the log (the ids 0 and
\* "0" are two ids, as they are two keys of the dict of aggregators); a
\* missing id reads as 0
SubmittedId(e) == PathGet(e, <<"Stage Info", "Stage ID">>)

IsSubmitOf(e, sid) == IsEvent(e, "SparkListenerStageSubmitted") /\ PyEq(SubmittedId(e), sid)

IsCompletedOf(e, sid) == IsEvent(e, "SparkListenerStageCompleted") /\ PyEq(SubmittedId(e), sid)

IsTaskEndOf(e, sid) ==
    IsEvent(e, "SparkListenerTaskEnd") /\ PyEq(PathGet(e, <<"Stage ID">>), sid)

\* sid is submitted exactly once in log, and before every TaskEnd that names it
SubmittedOnceBeforeTasks(log, sid) ==
    /\ Cardinality({i \in 1..Len(log) : IsSubmitOf(log[i], sid)}) = 1
    /\ \A i, k \in 1..Len(log) :
          IsSubmitOf(log[i], sid) /\ IsTaskEndOf(log[k], sid) => i < k

\* the TaskEnd events of log that name sid
TaskEndsOf(log, sid) == LET T(e) == IsTaskEndOf(e, sid) IN SelectSeq(log, T)

\* the sum over events of the number found at path
SumPath(events, path) == SumSeq([i \in 1..Len(events) |-> PathGet(events[i], path)])

\* Task Info.Failed is present and true
HasFailedFlag(e) ==
    /\ "Task Info" \in DOMAIN e
    /\ "Failed" \in DOMAIN e["Task Info"]
    /\ e["Task Info"]["Failed"]

\* the failure counter of sid after log: StageCompleted sets it, a failed
\* TaskEnd adds one to it
RECURSIVE FailureCounter(_, _)
FailureCounter(log, sid) ==
    IF log = <<>> THEN 0
    ELSE LET e    == log[Len(log)]
             rest == FailureCounter(SubSeq(log, 1, Len(log) - 1), sid)
         IN  IF IsSubmitOf(e, sid) THEN 0
             ELSE IF IsCompletedOf(e, sid)
                  THEN PathGet(e, <<"Stage Info", "Number of Failed Tasks">>)
             ELSE IF IsTaskEndOf(e, sid) /\ HasFailedFlag(e) THEN rest + 1
             ELSE rest

\* max(0, Finish Time - Launch Time) of a TaskEnd
ClampedDuration(e) ==
    LET d == PathGet(e, <<"Task Info", "Finish Time">>)
             - PathGet(e, <<"Task Info", "Launch Time">>)
    IN  IF d < 0 THEN 0 ELSE d

\* the durations of the TaskEnd events the stage sid received: those that
\* name sid and are consumed once sid has been submitted
RECURSIVE ReceivedDurations(_, _)
ReceivedDurations(log, sid) ==
    IF log = <<>> THEN <<>>
    ELSE LET e     == log[Len(log)]
             front == SubSeq(log, 1, Len(log) - 1)
         IN  IF IsTaskEndOf(e, sid) /\ \E i \in 1..Len(front) : IsSubmitOf(front[i], sid)
             THEN Append(ReceivedDurations(front, sid), ClampedDuration(e))
             ELSE ReceivedDurations(front, sid)

SeqMin(s) == CHOOSE x \in {s[i] : i \in 1..Len(s)} : \A i \in 1..Len(s) : x <= s[i]

SeqMax(s) == CHOOSE x \in {s[i] : i \in 1..Len(s)} : \A i \in 1..Len(s) : x >= s[i]

\* s holds the same values as t, each as many times
SameBag(s, t) ==
    /\ Len(s) = Len(t)
    /\ \A x \in {s[i] : i \in 1..Len(s)} \cup {t[i] : i \in 1..Len(t)} :
          Cardinality({i \in 1..Len(s) : s[i] = x}) = Cardinality({i \in 1..Len(t) : t[i] = x})

\* the ascending arrangement of the values of s, without sorting: the
\* sequence of the same length and values that is non-decreasing
IsAscendingOf(a, s) ==
    /\ SameBag(a, s)
    /\ \A i \in 1..(Len(a) - 1) : a[i] <= a[i + 1]

\* the p-th percentile of the whole population s as the code computes a
\* percentile (_percentile, truncated by int), taken over the ascending
\* arrangement of s
PopulationPercentile(s, p) ==
    LET Of(a) == FloatInt(Percentile(a, p))
    IN  Of(CHOOSE t \in [1..Len(s) -> {s[i] : i \in 1..Len(s)}] : IsAscendingOf(t, s))

\* the final result is a SparkMetrics
ResultOk == pc = "done" /\ result.status = "ok"

ResultStages == result.metrics.stages

(***************************************************************************)
(* C1.  Whatever the content of a readable log, parse_eventlog returns a   *)
(* SparkMetrics and never raises.  Stated as: once the parse is over, its  *)
(* result is a SparkMetrics.  The code violates it: a line that decodes to *)
(* a non-object raises AttributeError, and the ge=0 constraints of the     *)
(* pydantic models raise ValidationError for inverted timestamps or a      *)
(* reported failure count above the task count.                            *)
(***************************************************************************)
C1_ParseNeverRaises == pc = "done" => result.status = "ok"

(***************************************************************************)
(* C2.  The reader yields exactly one event for every non-empty line that  *)
(* decodes as JSON, in file order; blank lines and lines that fail to      *)
(* decode are skipped without stopping the iteration.  A log made of a     *)
(* valid ApplicationStart (with an App ID), an undecodable line and a      *)
(* valid ApplicationEnd (not stamped before the start) parses to metrics   *)
(* with the app_id of the start event, no stage and zero totals, and its   *)
(* analysis at the default thresholds reports zero findings.  The code     *)
(* violates it: the reader catches JSONDecodeError only, so a line on      *)
(* which json.loads raises ValueError (an integer of more digits than the  *)
(* interpreter converts) or RecursionError (brackets nested too deep)      *)
(* stops the iteration and the parse.                                      *)
(***************************************************************************)
\* the lines that are not blank and decode as JSON
DecodableLines(lines) ==
    LET D(line) == line.kind \in {"object", "scalar"} IN SelectSeq(lines, D)

BracketedGarbage ==
    /\ Len(file) = 3
    /\ file[1].kind = "object" /\ IsEvent(file[1].value, "SparkListenerApplicationStart")
    /\ "App ID" \in DOMAIN file[1].value
    /\ file[2].kind = "garbage"
    /\ file[3].kind = "object" /\ IsEvent(file[3].value, "SparkListenerApplicationEnd")
    /\ ("Timestamp" \in DOMAIN file[1].value /\ "Timestamp" \in DOMAIN file[3].value)
          => file[1].value["Timestamp"] <= file[3].value["Timestamp"]

\* the iteration ended on the last line read: json.loads raised on it and
\* the exception left the reader
ReaderStopped ==
    /\ pc = "done"
    /\ result.status = "raised"
    /\ file # <<>>
    /\ Strip(file[Len(file)]).kind = "raises"
    /\ result.error = Strip(file[Len(file)]).value

C2_ReaderYieldsDecodableLinesInOrder ==
    /\ Len(yielded) = Len(DecodableLines(file))
    /\ \A i \in 1..Len(yielded) : yielded[i].value = DecodableLines(file)[i].value
    /\ ~ReaderStopped
    /\ (pc \in {"done", "analyzed"} /\ BracketedGarbage) =>
          /\ result.status = "ok"
          /\ result.metrics.app_id = file[1].value["App ID"]
          /\ result.metrics.stages = <<>>
          /\ result.metrics.num_tasks = 0
          /\ result.metrics.total_input_bytes = 0
          /\ result.metrics.total_shuffle_write_bytes = 0
          /\ result.metrics.total_disk_bytes_spilled = 0
          /\ (pc = "analyzed" /\ thresholds = DefaultThresholds) => findings = <<>>

(***************************************************************************)
(* C3.  For a stage id submitted exactly once and before its TaskEnd       *)
(* events, the result holds the stage, under the id as StageMetrics reads  *)
(* it; its num_tasks is the number of TaskEnd events naming the stage id,  *)
(* and each byte/record/spill counter is the sum of the corresponding      *)
(* field over those events (missing fields count 0, shuffle read is remote *)
(* + local).  A failed TaskEnd is part of these counts and sums, and adds  *)
(* one to the failure counter.                                             *)
(***************************************************************************)
C3_StageSumsMatchLog ==
    ResultOk =>
      \A n \in 1..Len(Log) :
        LET sid == SubmittedId(Log[n])
            te  == TaskEndsOf(Log, sid)
            Sums(sm) ==
              /\ Some(sm.stage_id) = AsInt(sid)
              /\ sm.num_tasks = Len(te)
              /\ sm.input_bytes = SumPath(te, <<"Task Metrics", "Input Metrics", "Bytes Read">>)
              /\ sm.input_records = SumPath(te, <<"Task Metrics", "Input Metrics", "Records Read">>)
              /\ sm.output_bytes = SumPath(te, <<"Task Metrics", "Output Metrics", "Bytes Written">>)
              /\ sm.output_records = SumPath(te, <<"Task Metrics", "Output Metrics", "Records Written">>)
              /\ sm.shuffle_write_bytes =
                    SumPath(te, <<"Task Metrics", "Shuffle Write Metrics", "Shuffle Bytes Written">>)
              /\ sm.shuffle_read_bytes =
                    SumPath(te, <<"Task Metrics", "Shuffle Read Metrics", "Remote Bytes Read">>)
                    + SumPath(te, <<"Task Metrics", "Shuffle Read Metrics", "Local Bytes Read">>)
              /\ sm.memory_bytes_spilled = SumPath(te, <<"Task Metrics", "Memory Bytes Spilled">>)
              /\ sm.disk_bytes_spilled = SumPath(te, <<"Task Metrics", "Disk Bytes Spilled">>)
              /\ sm.num_failed_tasks = FailureCounter(Log, sid)
        IN  (/\ IsEvent(Log[n], "SparkListenerStageSubmitted")
             /\ SubmittedOnceBeforeTasks(Log, sid))
              => \E i \in 1..Len(ResultStages) : Sums(ResultStages[i])

C3_Witness ==
    /\ ResultOk
    /\ \E i \in 1..Len(ResultStages) :
          /\ SubmittedOnceBeforeTasks(Log, ResultStages[i].stage_id)
          /\ ResultStages[i].num_tasks >= 2
          /\ ResultStages[i].num_failed_tasks = 1
          /\ ResultStages[i].input_bytes > 0
          /\ ResultStages[i].shuffle_read_bytes > 0
          /\ \E k \in 1..Len(Log) :
                IsTaskEndOf(Log[k], ResultStages[i].stage_id) /\ HasFailedFlag(Log[k])

(***************************************************************************)
(* C4.  When a stage receives at most RESERVOIR_SIZE TaskEnd events its    *)
(* reservoir is exactly the sequence of their durations                    *)
(* max(0, Finish Time - Launch Time), so that the minimum, the maximum and *)
(* the interpolated percentiles of the result are those _percentile gives  *)
(* for the full task population; durations 400 and 500 give min 400,       *)
(* max 500, median 450.  The code violates it: a second StageSubmitted for *)
(* the stage replaces its aggregator, and the tasks the stage received     *)
(* before it are in the reservoir and in the statistics no more.           *)
(***************************************************************************)
C4_SmallStageStatsExact ==
    /\ \A i \in 1..Len(locals.stages) :
          LET all == ReceivedDurations(Log, locals.stages[i].stage_id)
          IN  Len(all) <= RESERVOIR_SIZE => locals.stages[i].duration_reservoir = all
    /\ ResultOk =>
          \A i \in 1..Len(ResultStages) :
             LET sm  == ResultStages[i]
                 all == ReceivedDurations(Log, sm.stage_id)
             IN  (Len(all) >= 1 /\ Len(all) <= RESERVOIR_SIZE) =>
                    /\ sm.task_duration_min_ms = SeqMin(all)
                    /\ sm.task_duration_max_ms = SeqMax(all)
                    /\ sm.task_duration_median_ms = PopulationPercentile(all, 50)
                    /\ sm.task_duration_p75_ms = PopulationPercentile(all, 75)
                    /\ sm.task_duration_p90_ms = PopulationPercentile(all, 90)
                    /\ sm.task_duration_p99_ms = PopulationPercentile(all, 99)
                    /\ SameBag(all, <<400, 500>>) =>
                          /\ sm.task_duration_min_ms = 400
                          /\ sm.task_duration_max_ms = 500
                          /\ sm.task_duration_median_ms = 450

(***************************************************************************)
(* C5.  The application-level num_tasks is the sum of num_tasks over the   *)
(* stages of the result, and each application-level byte total is the sum  *)
(* of the same counter over the stages of the result.                      *)
(***************************************************************************)
\* the sum of F over the stages of the result whose index is in I
RECURSIVE SumStages(_, _)
SumStages(I, field) ==
    IF I = {} THEN 0
    ELSE LET i == CHOOSE x \in I : TRUE
         IN  ResultStages[i][field] + SumStages(I \ {i}, field)

C5_TotalsAreStageSums ==
    ResultOk =>
      LET m == result.metrics
          I == 1..Len(m.stages)
      IN  /\ m.num_tasks = SumStages(I, "num_tasks")
          /\ m.total_input_bytes = SumStages(I, "input_bytes")
          /\ m.total_output_bytes = SumStages(I, "output_bytes")
          /\ m.total_shuffle_read_bytes = SumStages(I, "shuffle_read_bytes")
          /\ m.total_shuffle_write_bytes = SumStages(I, "shuffle_write_bytes")
          /\ m.total_disk_bytes_spilled = SumStages(I, "disk_bytes_spilled")

C5_Witness ==
    /\ ResultOk
    /\ Len(ResultStages) = 2
    /\ \A i \in 1..2 : ResultStages[i].num_tasks >= 1
    /\ ResultStages[1].num_failed_tasks >= 1
    /\ result.metrics.num_tasks = 2
    /\ result.metrics.total_input_bytes > ResultStages[1].input_bytes
    /\ result.metrics.total_input_bytes > ResultStages[2].input_bytes

(***************************************************************************)
(* C6.  For every stage of every result, also a stage without tasks and a  *)
(* stage whose reservoir overflowed and had entries replaced by random     *)
(* draws: min <= median <= p75 <= p90 <= p99 <= max.  The code violates    *)
(* it: _percentile works in floats, and a duration above 2^53 that no      *)
(* float holds is rounded, so that the percentiles of a stage whose only   *)
(* task took 2^53 + 1 ms are 2^53, below its minimum.                      *)
(***************************************************************************)
C6_PercentilesOrdered ==
    ResultOk =>
      \A i \in 1..Len(ResultStages) :
        LET sm == ResultStages[i]
            AtMost(a, b) == ~IntLess(b, a)
        IN  /\ AtMost(sm.task_duration_min_ms, sm.task_duration_median_ms)
            /\ AtMost(sm.task_duration_median_ms, sm.task_duration_p75_ms)
            /\ AtMost(sm.task_duration_p75_ms, sm.task_duration_p90_ms)
            /\ AtMost(sm.task_duration_p90_ms, sm.task_duration_p99_ms)
            /\ AtMost(sm.task_duration_p99_ms, sm.task_duration_max_ms)

(***************************************************************************)
(* C7.  For every stage of every result, after any sequence of             *)
(* StageSubmitted, TaskEnd and StageCompleted events:                      *)
(* num_failed_tasks <= num_tasks.  The code violates it: StageCompleted    *)
(* stores the Number of Failed Tasks of the event whatever the number of   *)
(* tasks counted.                                                          *)
(***************************************************************************)
C7_FailedTasksAtMostTasks ==
    ResultOk =>
      \A i \in 1..Len(ResultStages) :
         ResultStages[i].num_failed_tasks <= ResultStages[i].num_tasks

(***************************************************************************)
(* C8.  In every result total_duration_ms >= 0; it is the timestamp of     *)
(* ApplicationEnd minus the timestamp of ApplicationStart when both are    *)
(* present, and 0 when the start event, the end event or one of the two    *)
(* timestamps is missing.  (The last event of each kind counts.)           *)
(***************************************************************************)
\* the Timestamp of the last event of the given type: None when there is no
\* such event or when it carries no Timestamp
LastTimestamp(log, type) ==
    LET I == {i \in 1..Len(log) : IsEvent(log[i], type)}
    IN  IF I = {} THEN None
        ELSE LET last == CHOOSE i \in I : \A k \in I : k <= i
             IN  IF "Timestamp" \in DOMAIN log[last] THEN <<log[last]["Timestamp"]>> ELSE None

C8_TotalDuration ==
    ResultOk =>
      LET st == LastTimestamp(Log, "SparkListenerApplicationStart")
          en == LastTimestamp(Log, "SparkListenerApplicationEnd")
      IN  /\ result.metrics.total_duration_ms >= 0
          /\ (st # None /\ en # None) => result.metrics.total_duration_ms = en[1] - st[1]
          /\ (st = None \/ en = None) => result.metrics.total_duration_ms = 0

C8_Witness ==
    /\ ResultOk
    /\ LastTimestamp(Log, "SparkListenerApplicationStart") = <<10>>
    /\ LastTimestamp(Log, "SparkListenerApplicationEnd") = <<20>>
    /\ result.metrics.total_duration_ms = 10

(***************************************************************************)
(* C9.  The stage list of every result is strictly ascending by stage id:  *)
(* no id appears twice, also when an id is submitted more than once, and   *)
(* the order does not depend on the order of the StageSubmitted events.    *)
(* The code violates it: the aggregators are kept under the Stage ID as    *)
(* the log gives it, and the stage list holds the ids as StageMetrics      *)
(* reads them, so the stages submitted as 0 and as "0" are two entries of  *)
(* the list, both with stage_id 0.                                         *)
(***************************************************************************)
C9_StagesStrictlyAscending ==
    ResultOk =>
      \A i, k \in 1..Len(ResultStages) :
         i < k => ResultStages[i].stage_id < ResultStages[k].stage_id

(***************************************************************************)
(* C10.  A TaskEnd whose stage has no aggregator when it is consumed       *)
(* (never submitted, or submitted only later) is dropped: it creates no    *)
(* stage and the final metrics are identical to those of the same log      *)
(* without that event.  The code violates it: lines 121 to 126 of the      *)
(* branch run before the stage is looked up, so the Executor ID of the     *)
(* event is recorded and counted, and an event whose Task Info is not a    *)
(* dict or whose Executor ID cannot be hashed makes the parse raise where  *)
(* the log without it returns.  The two results are compared with          *)
(* executor_ids read as a set, so that the order in which list(executors)  *)
(* enumerates it plays no part.                                            *)
(***************************************************************************)
\* a result with executor_ids as the set of its entries
ExecutorsAsSet(r) ==
    IF r.status = "ok"
    THEN [r EXCEPT !.metrics = [@ EXCEPT !.executor_ids = Range(@)]]
    ELSE r

C10_DroppedTaskEndLeavesMetricsIdentical ==
    pc = "done" => ExecutorsAsSet(result) = ExecutorsAsSet(shadowResult)

(***************************************************************************)
(* C11.  Parsing is deterministic given the random draws: a run and its    *)
(* twin over the same events, with the same values returned by             *)
(* random.randint, have identical aggregator state after every prefix,     *)
(* identical metrics and identical findings; and while no aggregator has   *)
(* received more than RESERVOIR_SIZE tasks the outcome is the same         *)
(* whatever the draws were.  It fails on the metrics: executor_ids is      *)
(* list(executors), whose order changes with the hash seed of the process. *)
(***************************************************************************)
\* no aggregator has received more tasks than the reservoir holds
NoStageOverflowed ==
    \A i \in 1..Len(locals.stages) : locals.stages[i].task_count <= RESERVOIR_SIZE

C11_SameDrawsSameOutcome ==
    (sameDraws \/ NoStageOverflowed) =>
        /\ locals = twin.locals
        /\ pc # "reading" => result = twin.result
        /\ pc = "analyzed" => findings = twin.findings

(***************************************************************************)
(* What the detector claims talk about: the metrics the detectors were     *)
(* given, and the findings that carry a given id.                          *)
(***************************************************************************)
Analyzed == pc = "analyzed"

AnalyzedStages == result.metrics.stages

\* the positions in the collection of the findings whose id is id
FindingsWithId(id) == { k \in 1..Len(findings) : findings[k].id = id }

\* the findings with that id are all of the given detector and severity and
\* name exactly the given stages
AllAre(id, detector, severity, stage_ids) ==
    \A k \in FindingsWithId(id) :
        /\ findings[k].detector = detector
        /\ findings[k].severity = severity
        /\ findings[k].stage_ids = stage_ids

(***************************************************************************)
(* C12.  The skew detector emits skew-stage-{id} for a stage exactly when  *)
(* num_tasks >= 10, median_task_ms > 0 and r = max / median >= skew_ratio; *)
(* the severity is critical when r > 2 * skew_ratio and warning otherwise  *)
(* (also when r equals skew_ratio or 2 * skew_ratio).  With skew_ratio =   *)
(* num / den, r >= skew_ratio is max * den >= num * median.                *)
(***************************************************************************)
C12_SkewExactlyWhen ==
    Analyzed =>
      \A i \in 1..Len(AnalyzedStages) :
        LET st      == AnalyzedStages[i]
            id      == "skew-stage-" \o ToString(st.stage_id)
            num     == thresholds.skew_ratio.num
            den     == thresholds.skew_ratio.den
            flagged == /\ st.num_tasks >= 10
                       /\ st.task_duration_median_ms > 0
                       /\ st.task_duration_max_ms * den >= num * st.task_duration_median_ms
            over    == st.task_duration_max_ms * den > 2 * num * st.task_duration_median_ms
        IN  /\ (FindingsWithId(id) # {}) <=> flagged
            /\ Cardinality(FindingsWithId(id)) <= 1
            /\ AllAre(id, "skew", IF over THEN "critical" ELSE "warning", <<st.stage_id>>)

\* 100 tasks, median 200 ms, max 4000 ms at the default ratio 10: r is
\* exactly twice the ratio and the finding is a warning
C12_Witness ==
    /\ Analyzed
    /\ thresholds = DefaultThresholds
    /\ Len(AnalyzedStages) = 1
    /\ AnalyzedStages[1].num_tasks = 100
    /\ AnalyzedStages[1].task_duration_median_ms = 200
    /\ AnalyzedStages[1].task_duration_max_ms = 4000
    /\ \E k \in 1..Len(findings) :
          findings[k].id = "skew-stage-0" /\ findings[k].severity = "warning"

(***************************************************************************)
(* C13.  The shuffle detector emits shuffle-explosion-stage-{id} for a     *)
(* stage exactly when input_bytes > 0, shuffle_write_bytes > 0 and         *)
(* r = shuffle_write_bytes / input_bytes >= shuffle_explosion_ratio; the   *)
(* severity is critical when r > 2 * shuffle_explosion_ratio and warning   *)
(* otherwise; below the threshold the stage gets no such finding.          *)
(***************************************************************************)
C13_ShuffleStageExactlyWhen ==
    Analyzed =>
      \A i \in 1..Len(AnalyzedStages) :
        LET st      == AnalyzedStages[i]
            id      == "shuffle-explosion-stage-" \o ToString(st.stage_id)
            num     == thresholds.shuffle_explosion_ratio.num
            den     == thresholds.shuffle_explosion_ratio.den
            flagged == /\ st.input_bytes > 0
                       /\ st.shuffle_write_bytes > 0
                       /\ st.shuffle_write_bytes * den >= num * st.input_bytes
            over    == st.shuffle_write_bytes * den > 2 * num * st.input_bytes
        IN  /\ (FindingsWithId(id) # {}) <=> flagged
            /\ Cardinality(FindingsWithId(id)) <= 1
            /\ AllAre(id, "shuffle", IF over THEN "critical" ELSE "warning", <<st.stage_id>>)

\* input 1 MiB and shuffle write 100 MiB at the default ratio 5: critical
C13_Witness ==
    /\ Analyzed
    /\ thresholds = DefaultThresholds
    /\ Len(AnalyzedStages) = 1
    /\ AnalyzedStages[1].input_bytes = MB
    /\ AnalyzedStages[1].shuffle_write_bytes = 100 * MB
    /\ \E k \in 1..Len(findings) :
          /\ findings[k].id = "shuffle-explosion-stage-3"
          /\ findings[k].severity = "critical"

(***************************************************************************)
(* C14.  The spill detector emits spill-stage-{id} for a stage exactly     *)
(* when s = disk_bytes_spilled / MiB >= min_spill_mb; the severity is      *)
(* critical when s > 10 * min_spill_mb, warning when                       *)
(* 3 * min_spill_mb < s <= 10 * min_spill_mb and info otherwise; a stage   *)
(* that spilled less than min_spill_mb gets no finding.                    *)
(***************************************************************************)
C14_SpillStageExactlyWhen ==
    Analyzed =>
      \A i \in 1..Len(AnalyzedStages) :
        LET st       == AnalyzedStages[i]
            id       == "spill-stage-" \o ToString(st.stage_id)
            bytes    == st.disk_bytes_spilled
            min      == thresholds.min_spill_mb * MB
            severity == IF bytes > 10 * min THEN "critical"
                        ELSE IF 3 * min < bytes /\ bytes <= 10 * min THEN "warning"
                        ELSE "info"
        IN  /\ (FindingsWithId(id) # {}) <=> bytes >= min
            /\ Cardinality(FindingsWithId(id)) <= 1
            /\ AllAre(id, "spill", severity, <<st.stage_id>>)

\* 500 MiB at the default threshold 100: warning
C14_Witness ==
    /\ Analyzed
    /\ thresholds = DefaultThresholds
    /\ Len(AnalyzedStages) = 1
    /\ AnalyzedStages[1].disk_bytes_spilled = 500 * MB
    /\ \E k \in 1..Len(findings) :
          findings[k].id = "spill-stage-0" /\ findings[k].severity = "warning"

(***************************************************************************)
(* C15.  For a stage with non-zero duration the I/O detector emits         *)
(* io-shuffle-stage-{id} (warning) when shuffle_read_bytes > 0, the        *)
(* per-task average shuffle read exceeds 100 MiB and median_task_ms >      *)
(* 10000; it emits io-input-stage-{id} (info) only when that rule did not  *)
(* fire and input_bytes > 0, the per-task average input exceeds 500 MiB    *)
(* and median_task_ms > 30000.  So a stage gets at most one I/O finding,   *)
(* and none when its duration is zero or it has no tasks.  It fails: the   *)
(* two checks are independent if statements and one stage can get both.    *)
(***************************************************************************)
C15_AtMostOneIOFindingPerStage ==
    Analyzed =>
      \A i \in 1..Len(AnalyzedStages) :
        LET st          == AnalyzedStages[i]
            shuffle_id  == "io-shuffle-stage-" \o ToString(st.stage_id)
            input_id    == "io-input-stage-" \o ToString(st.stage_id)
            considered  == st.duration_ms # 0 /\ st.num_tasks > 0
            shuffleRule == /\ considered
                           /\ st.shuffle_read_bytes > 0
                           /\ st.shuffle_read_bytes > 100 * MB * st.num_tasks
                           /\ st.task_duration_median_ms > 10000
            inputRule   == /\ considered
                           /\ ~shuffleRule
                           /\ st.input_bytes > 0
                           /\ st.input_bytes > 500 * MB * st.num_tasks
                           /\ st.task_duration_median_ms > 30000
        IN  /\ (FindingsWithId(shuffle_id) # {}) <=> shuffleRule
            /\ (FindingsWithId(input_id) # {}) <=> inputRule
            /\ AllAre(shuffle_id, "io", "warning", <<st.stage_id>>)
            /\ AllAre(input_id, "io", "info", <<st.stage_id>>)
            /\ Cardinality(FindingsWithId(shuffle_id) \cup FindingsWithId(input_id)) <= 1

(***************************************************************************)
(* C16.  The partition detector emits partition-inefficiency-stage-{id}    *)
(* (warning) exactly when num_tasks >= min_tasks_for_inefficiency and      *)
(* median_task_ms <= max_task_runtime_ms_for_inefficiency, and its hint    *)
(* names max(num_tasks div 10, 1) partitions; it emits                     *)
(* under-partitioned-stage-{id} (info) exactly when num_tasks < 10 and     *)
(* median_task_ms > 60000, and its hint names 2 * num_executors.           *)
(***************************************************************************)
C16_PartitionExactlyWhen ==
    Analyzed =>
      \A i \in 1..Len(AnalyzedStages) :
        LET st       == AnalyzedStages[i]
            over_id  == "partition-inefficiency-stage-" \o ToString(st.stage_id)
            under_id == "under-partitioned-stage-" \o ToString(st.stage_id)
            over     == /\ st.num_tasks >= thresholds.min_tasks_for_inefficiency
                        /\ st.task_duration_median_ms
                             <= thresholds.max_task_runtime_ms_for_inefficiency
            under    == st.num_tasks < 10 /\ st.task_duration_median_ms > 60000
            target   == IF st.num_tasks \div 10 >= 1 THEN st.num_tasks \div 10 ELSE 1
        IN  /\ (FindingsWithId(over_id) # {}) <=> over
            /\ (FindingsWithId(under_id) # {}) <=> under
            /\ Cardinality(FindingsWithId(over_id)) <= 1
            /\ Cardinality(FindingsWithId(under_id)) <= 1
            /\ AllAre(over_id, "partition", "warning", <<st.stage_id>>)
            /\ AllAre(under_id, "partition", "info", <<st.stage_id>>)
            /\ \A k \in FindingsWithId(over_id) : findings[k].hint_target = <<target>>
            /\ \A k \in FindingsWithId(under_id) :
                  findings[k].hint_target = <<2 * result.metrics.num_executors>>

\* a stage of 9 tasks, median 60001 ms, with min_tasks_for_inefficiency 2 and
\* max_task_runtime_ms_for_inefficiency 70000: both findings, the first with
\* the clamped target 1, the second with 2 * 3 executors
C16_Witness ==
    /\ Analyzed
    /\ Len(AnalyzedStages) = 1
    /\ AnalyzedStages[1].num_tasks = 9
    /\ AnalyzedStages[1].task_duration_median_ms = 60001
    /\ \E k \in 1..Len(findings) :
          /\ findings[k].id = "partition-inefficiency-stage-0"
          /\ findings[k].hint_target = <<1>>
    /\ \E k \in 1..Len(findings) :
          /\ findings[k].id = "under-partitioned-stage-0"
          /\ findings[k].hint_target = <<6>>

(***************************************************************************)
(* C17.  shuffle-explosion-global is emitted exactly when                  *)
(* total_input_bytes > 0 and (total_shuffle_read_bytes +                   *)
(* total_shuffle_write_bytes) / total_input_bytes >= 2 *                   *)
(* shuffle_explosion_ratio; it is a warning, its stage_ids is empty, and   *)
(* a run emits at most one.                                                *)
(***************************************************************************)
C17_ShuffleGlobalExactlyWhen ==
    Analyzed =>
        LET m       == result.metrics
            num     == thresholds.shuffle_explosion_ratio.num
            den     == thresholds.shuffle_explosion_ratio.den
            shuffled == m.total_shuffle_read_bytes + m.total_shuffle_write_bytes
            \* shuffled / input >= 2 * num / den, as input <= shuffled * den / (2 * num)
            flagged == /\ m.total_input_bytes > 0
                       /\ m.total_input_bytes <= (shuffled * den) \div (2 * num)
        IN  /\ (FindingsWithId("shuffle-explosion-global") # {}) <=> flagged
            /\ Cardinality(FindingsWithId("shuffle-explosion-global")) <= 1
            /\ AllAre("shuffle-explosion-global", "shuffle", "warning", <<>>)

\* input 10, shuffle read 50 and shuffle write 50 at the default ratio 5: the
\* total ratio is exactly 10 and only read and write together reach it
C17_Witness ==
    /\ Analyzed
    /\ thresholds = DefaultThresholds
    /\ result.metrics.total_input_bytes = 10
    /\ result.metrics.total_shuffle_read_bytes = 50
    /\ result.metrics.total_shuffle_write_bytes = 50
    /\ FindingsWithId("shuffle-explosion-global") # {}

(***************************************************************************)
(* C18.  spill-total is emitted exactly when total_disk_bytes_spilled /    *)
(* MiB >= 5 * min_spill_mb; it is a warning and its stage_ids lists        *)
(* exactly the ids of the stages with disk_bytes_spilled > 0, in stage     *)
(* order.                                                                  *)
(***************************************************************************)
\* the ids of the stages that spilled to disk, in the order of the stages
SpilledStageIds ==
    LET Spilled(st) == st.disk_bytes_spilled > 0
        spilled     == SelectSeq(AnalyzedStages, Spilled)
    IN  [k \in 1..Len(spilled) |-> spilled[k].stage_id]

C18_SpillTotalExactlyWhen ==
    Analyzed =>
        /\ (FindingsWithId("spill-total") # {})
             <=> result.metrics.total_disk_bytes_spilled >= 5 * thresholds.min_spill_mb * MB
        /\ Cardinality(FindingsWithId("spill-total")) <= 1
        /\ AllAre("spill-total", "spill", "warning", SpilledStageIds)

\* three stages of which the first and the last spilled, 5 MiB in total, at
\* min_spill_mb 1
C18_Witness ==
    /\ Analyzed
    /\ thresholds.min_spill_mb = 1
    /\ Len(AnalyzedStages) = 3
    /\ AnalyzedStages[2].disk_bytes_spilled = 0
    /\ result.metrics.total_disk_bytes_spilled = 5 * MB
    /\ \E k \in 1..Len(findings) :
          findings[k].id = "spill-total" /\ findings[k].stage_ids = <<1, 6>>

(***************************************************************************)
(* C19.  The driver detector emits driver-large-result-stage-{id}          *)
(* (warning) only for the three stages with the highest stage ids (all     *)
(* stages when there are fewer than three), and for each of those exactly  *)
(* when output_bytes / MiB > max_result_size_mb; a stage outside the top   *)
(* three never gets the finding.                                           *)
(***************************************************************************)
\* fewer than three stages have a higher id than stage i
AmongTopThree(i) ==
    Cardinality({ k \in 1..Len(AnalyzedStages) :
                    AnalyzedStages[k].stage_id > AnalyzedStages[i].stage_id }) < 3

C19_LargeResultOnlyTopThree ==
    Analyzed =>
      \A i \in 1..Len(AnalyzedStages) :
        LET st == AnalyzedStages[i]
            id == "driver-large-result-stage-" \o ToString(st.stage_id)
        IN  /\ (FindingsWithId(id) # {})
                 <=> /\ AmongTopThree(i)
                     /\ st.output_bytes > thresholds.max_result_size_mb * MB
            /\ Cardinality(FindingsWithId(id)) <= 1
            /\ AllAre(id, "driver", "warning", <<st.stage_id>>)

\* four stages, the lowest and the highest with more than 50 MiB of output:
\* only the highest gets the finding
C19_Witness ==
    /\ Analyzed
    /\ thresholds = DefaultThresholds
    /\ Len(AnalyzedStages) = 4
    /\ AnalyzedStages[1].output_bytes = 50 * MB + 1
    /\ AnalyzedStages[4].output_bytes = 50 * MB + 1
    /\ FindingsWithId("driver-large-result-stage-0") = {}
    /\ FindingsWithId("driver-large-result-stage-9") # {}

(***************************************************************************)
(* C20.  In the collection the six detectors produce from metrics the      *)
(* parser returned, under any valid thresholds: every severity is          *)
(* critical, warning or info; no two findings have the same id; and every  *)
(* stage id in a finding's stage_ids is the id of a stage of the metrics.  *)
(* The code violates the second part: the parser returns two stages with   *)
(* stage_id 0 for a log that submits the stages 0 and "0", and a detector  *)
(* that reports both gives both findings the same id.                      *)
(***************************************************************************)
C20_FindingsWellFormed ==
    (Analyzed /\ ThresholdsValid(thresholds)) =>
        /\ \A k \in 1..Len(findings) :
              findings[k].severity \in {"critical", "warning", "info"}
        /\ \A k, l \in 1..Len(findings) : k # l => findings[k].id # findings[l].id
        /\ \A k \in 1..Len(findings) :
              \A n \in 1..Len(findings[k].stage_ids) :
                 \E i \in 1..Len(AnalyzedStages) :
                    AnalyzedStages[i].stage_id = findings[k].stage_ids[n]

(***************************************************************************)
(* C21.  Each detector's detect is a pure function of (metrics,            *)
(* thresholds): after any sequence of detector calls the metrics object    *)
(* and the threshold config are as they were before the first call, a      *)
(* repeated call returns the findings the first call of that detector      *)
(* returned, every call returns what the detector returns when it is       *)
(* called first, and once the six detectors have run, in whatever order,   *)
(* the findings collected are as a multiset those of _run_detectors.       *)
(***************************************************************************)
C21_DetectorsPureAndOrderInsensitive ==
    /\ run.metrics = result.metrics
    /\ run.thresholds = thresholds
    /\ \A i \in 1..Len(run.calls) :
          run.calls[i].findings =
              DetectOf(run.calls[i].detector, result.metrics, thresholds)
    /\ run.again # <<>> =>
          \E i \in 1..Len(run.calls) :
             /\ run.calls[i].detector = run.again[1].detector
             /\ run.calls[i].findings = run.again[1].findings
    /\ Len(run.calls) = Len(DetectorNames) =>
          SameBag(Collected, RunDetectors(result.metrics, thresholds))

C21_Witness ==
    /\ Len(run.calls) = Len(DetectorNames)
    /\ run.calls[1].detector = "driver"
    /\ run.calls[6].detector = "skew"
    /\ run.calls[6].findings # <<>>
    /\ Len(result.metrics.stages) = 4
    /\ Len(Collected) >= 6
    /\ run.again # <<>>
    /\ run.again[1].detector = "spill"
    /\ run.again[1].findings # <<>>

(***************************************************************************)
(* C22.  FindingCollection.add appends its argument to the collection.     *)
(* sorted_by_severity returns every finding exactly once, all critical     *)
(* before all warning before all info and findings of equal severity in    *)
(* insertion order; by_severity, by_detector and by_stage return, in       *)
(* insertion order, exactly the findings matching the filter; to_dict      *)
(* counts the findings and lists them in that sorted order.  None of the   *)
(* queries changes the collection.  Stated on every step of a collection   *)
(* that is filled and queried.                                             *)
(***************************************************************************)
\* the entries of s at the positions of I, in position order
RECURSIVE PickAt(_, _)
PickAt(s, I) ==
    IF I = {} THEN <<>>
    ELSE LET last == CHOOSE i \in I : \A k \in I : k <= i
         IN  Append(PickAt(s, I \ {last}), s[last])

WithSeverity(s, severity) == PickAt(s, {i \in 1..Len(s) : s[i].severity = severity})

CriticalWarningInfo(s) ==
    WithSeverity(s, "critical") \o WithSeverity(s, "warning") \o WithSeverity(s, "info")

C22_CollectionAppendsAndViewsFilter ==
    [][ LET m == view'.method
            a == view'.arg
            r == view'.result
        IN  /\ m = "add" => findings' = findings \o <<a>>
            /\ m # "add" => findings' = findings
            /\ m = "sorted_by_severity" =>
                  /\ r = CriticalWarningInfo(findings)
                  /\ SameBag(r, findings)
            /\ m = "by_severity" => r = WithSeverity(findings, a)
            /\ m = "by_detector" =>
                  r = PickAt(findings, {i \in 1..Len(findings) : findings[i].detector = a})
            /\ m = "by_stage" =>
                  r = PickAt(findings,
                             {i \in 1..Len(findings) :
                                \E k \in 1..Len(findings[i].stage_ids) :
                                   findings[i].stage_ids[k] = a})
            /\ m = "to_dict" =>
                  /\ r.findings = CriticalWarningInfo(findings)
                  /\ r.num_findings = Len(findings)
                  /\ r.num_critical = Len(WithSeverity(findings, "critical"))
                  /\ r.num_warnings = Len(WithSeverity(findings, "warning")) ]_vars

\* an info, a warning, a critical and a second warning were added in that
\* order and the sorted view moved the critical finding to the front
C22_Witness ==
    /\ Len(findings) = 4
    /\ findings[1].severity = "info"
    /\ findings[2].severity = "warning"
    /\ findings[3].severity = "critical"
    /\ findings[4].severity = "warning"
    /\ findings[2] # findings[4]
    /\ view.method = "sorted_by_severity"
    /\ view.result = <<findings[3], findings[2], findings[4], findings[1]>>

(***************************************************************************)
(* C23.  When analyze() is given one of the explainers and a request of    *)
(* explain_finding or summarize fails, analyze() still returns the report  *)
(* and no exception reaches the caller: every finding has a string as      *)
(* llm_explanation and, when there are findings, the report has a string   *)
(* as llm_summary; where the request failed that string is the captured    *)
(* failure, "(<Provider> error: <message>)".                               *)
(***************************************************************************)
\* the string that embeds the failure of a request
CapturedFailure(provider, outcome) ==
    [ws |-> FALSE, text |-> "(" \o ProviderLabel(provider) \o " error: " \o outcome.text \o ")"]

C23_ExplainerFailuresCaptured ==
    (pc = "reported" /\ report.provider # None) =>
       LET n == Len(findings)
       IN  /\ report.status = "returned"
           /\ Len(report.llm_explanations) = n
           /\ \A i \in 1..n :
                 /\ report.llm_explanations[i] # None
                 /\ report.outcomes[i].raised =>
                       report.llm_explanations[i] =
                           Some(CapturedFailure(report.provider[1], report.outcomes[i]))
           /\ n > 0 =>
                 /\ report.llm_summary # None
                 /\ report.outcomes[n + 1].raised =>
                       report.llm_summary =
                           Some(CapturedFailure(report.provider[1], report.outcomes[n + 1]))

\* the first explanation request and the summary request failed, the
\* second explanation request succeeded
C23_Witness ==
    /\ pc = "reported"
    /\ report.provider = Some("ollama")
    /\ Len(findings) >= 2
    /\ report.outcomes[1].raised
    /\ ~report.outcomes[2].raised
    /\ report.outcomes[Len(findings) + 1].raised
    /\ report.status = "returned"
    /\ report.llm_explanations[1] = Some([ws |-> FALSE, text |-> "(Ollama error: connection refused)"])
    /\ report.llm_explanations[2] = Some([ws |-> FALSE, text |-> "Repartition the stage."])
    /\ report.llm_summary = Some([ws |-> FALSE, text |-> "(Ollama error: model not found)"])

(***************************************************************************)
(* C24.  In every parse result, a stage for which both a submission and a  *)
(* completion timestamp were recorded, whatever their values (0            *)
(* included), has duration_ms = completion_time - submission_time, and a   *)
(* stage with a missing endpoint has duration_ms = 0.  The code violates   *)
(* it: to_stage_metrics tests the two timestamps for truth, so a stage     *)
(* submitted or completed at time 0 gets duration 0.                       *)
(***************************************************************************)
C24_StageDurationFromTimestamps ==
    ResultOk =>
      \A i \in 1..Len(ResultStages) :
        LET sm == ResultStages[i]
        IN  IF sm.submission_time_ms # None /\ sm.completion_time_ms # None
            THEN sm.duration_ms = sm.completion_time_ms[1] - sm.submission_time_ms[1]
            ELSE sm.duration_ms = 0

(***************************************************************************)
(* C25.  On every step of the parse, the counters recorded for a stage id  *)
(* (task count, input/output bytes and records, shuffle read/write bytes,  *)
(* memory/disk spill bytes) are at least what they were before the step,   *)
(* also when the step consumes a StageSubmitted for a stage id that is     *)
(* already known.  The code violates it: a StageSubmitted always stores a  *)
(* new aggregator under the stage id, so a second submission resets the    *)
(* counters of the stage to 0.                                             *)
(***************************************************************************)
CounterFields ==
    { "task_count", "input_bytes", "input_records", "output_bytes", "output_records",
      "shuffle_read_bytes", "shuffle_write_bytes", "memory_bytes_spilled",
      "disk_bytes_spilled" }

C25_StageCountersNeverDecrease ==
    [][ \A i \in 1..Len(locals.stages) : \A k \in 1..Len(locals'.stages) :
          PyEq(locals.stages[i].stage_id, locals'.stages[k].stage_id) =>
             \A c \in CounterFields : locals'.stages[k][c] >= locals.stages[i][c] ]_vars

(***************************************************************************)
(* C26.  In every state of the parse the reservoir of an aggregator holds  *)
(* at most min(RESERVOIR_SIZE, reservoir_count) durations.  A TaskEnd for  *)
(* a known stage adds one to reservoir_count; while the reservoir holds    *)
(* fewer than RESERVOIR_SIZE durations the duration of the task is         *)
(* appended; once it is full its length stays RESERVOIR_SIZE, at most one  *)
(* slot changes, the new content of that slot is the duration of the task, *)
(* and every draw below RESERVOIR_SIZE is an index of the reservoir.       *)
(***************************************************************************)
\* the step consumes a TaskEnd event naming stage sid
ConsumesTaskEndOf(sid) ==
    /\ Len(yielded') = Len(yielded) + 1
    /\ yielded'[Len(yielded')].isdict
    /\ IsTaskEndOf(yielded'[Len(yielded')].value, sid)

ConsumedTaskDuration ==
    TaskDuration(Get(yielded'[Len(yielded')].value, "Task Info", EmptyDict))

ReservoirBounded(agg) ==
    /\ Len(agg.duration_reservoir) <= Min(RESERVOIR_SIZE, agg.reservoir_count)
    /\ \A j \in RandomDraws(agg) :
          (Len(agg.duration_reservoir) >= RESERVOIR_SIZE /\ j < RESERVOIR_SIZE)
             => j + 1 \in DOMAIN agg.duration_reservoir

ReservoirStep(old, new, d) ==
    /\ new.reservoir_count = old.reservoir_count + 1
    /\ IF Len(old.duration_reservoir) < RESERVOIR_SIZE
       THEN new.duration_reservoir = Append(old.duration_reservoir, d)
       ELSE /\ Len(new.duration_reservoir) = Len(old.duration_reservoir)
            /\ Cardinality({ k \in 1..Len(old.duration_reservoir) :
                               new.duration_reservoir[k] # old.duration_reservoir[k] }) <= 1
            /\ \A k \in 1..Len(old.duration_reservoir) :
                  new.duration_reservoir[k] # old.duration_reservoir[k]
                     => new.duration_reservoir[k] = d

C26_ReservoirBoundedAndInRange ==
    /\ [](\A i \in 1..Len(locals.stages) : ReservoirBounded(locals.stages[i]))
    /\ [][ \A i \in 1..Len(locals.stages) :
             ConsumesTaskEndOf(locals.stages[i].stage_id) =>
               /\ Len(locals'.stages) = Len(locals.stages)
               /\ ReservoirStep(locals.stages[i], locals'.stages[i], ConsumedTaskDuration) ]_vars

\* an aggregator that has observed more tasks than its reservoir holds, and
\* whose reservoir is no longer the first RESERVOIR_SIZE observations
C26_Witness ==
    \E i \in 1..Len(locals.stages) :
       LET agg == locals.stages[i]
           te  == TaskEndsOf(Log, agg.stage_id)
       IN  /\ agg.reservoir_count > RESERVOIR_SIZE
           /\ Len(agg.duration_reservoir) = RESERVOIR_SIZE
           /\ Len(te) = agg.reservoir_count
           /\ \E k \in 1..RESERVOIR_SIZE :
                 agg.duration_reservoir[k] #
                    TaskDuration(Get(te[k], "Task Info", EmptyDict))

(***************************************************************************)
(* C27.  As stated: in every state of every aggregator, from its creation  *)
(* by StageSubmitted on, duration_min <= duration_max.  The code does not  *)
(* satisfy it: a new aggregator has duration_min = float("inf") and        *)
(* duration_max = 0, and keeps them until its first TaskEnd.               *)
(***************************************************************************)
\* a <= b for a duration_min a and an integer b
InfAtMost(a, b) == ~a.inf /\ a.v <= b

C27_DurationMinAtMostMax ==
    \A i \in 1..Len(locals.stages) :
       InfAtMost(locals.stages[i].duration_min, locals.stages[i].duration_max)

(***************************************************************************)
(* C27, amended.  An aggregator that has observed no task has              *)
(* duration_min = float("inf") and duration_max = 0; from its first        *)
(* TaskEnd on, and through every later TaskEnd and StageCompleted,         *)
(* duration_min is finite and duration_min <= duration_max.                *)
(***************************************************************************)
C27_DurationMinAtMostMaxOnceObserved ==
    \A i \in 1..Len(locals.stages) :
       LET agg == locals.stages[i]
       IN  IF agg.task_count = 0
           THEN agg.duration_min = Inf /\ agg.duration_max = 0
           ELSE InfAtMost(agg.duration_min, agg.duration_max)

\* a completed stage with several tasks of different durations
C27_Witness ==
    \E i \in 1..Len(locals.stages) :
       /\ locals.stages[i].task_count >= 2
       /\ locals.stages[i].completion_time_ms # None
       /\ ~locals.stages[i].duration_min.inf
       /\ locals.stages[i].duration_min.v < locals.stages[i].duration_max

(***************************************************************************)
(* C28.  A StageCompleted for a stage id without aggregator leaves the     *)
(* aggregators as they are: none is created and none is changed.  No       *)
(* TaskEnd and no StageCompleted changes the set of stage ids.  Hence, at  *)
(* every point of the parse the stage ids that have an aggregator are      *)
(* exactly the stage ids of the StageSubmitted events read, and in the     *)
(* result the stage ids of the stage list are exactly those ids as         *)
(* StageMetrics reads them.                                                *)
(***************************************************************************)
\* the event consumed by the step, when the step consumes an object
ConsumesEvent(type) ==
    /\ Len(yielded') = Len(yielded) + 1
    /\ yielded'[Len(yielded')].isdict
    /\ IsEvent(yielded'[Len(yielded')].value, type)

StageIds(stages) == { stages[i].stage_id : i \in 1..Len(stages) }

\* sid is the id of one of the aggregators
IsStageId(stages, sid) == \E i \in 1..Len(stages) : PyEq(stages[i].stage_id, sid)

\* the two dicts of aggregators have the same keys
SameStageIds(s, t) ==
    /\ \A i \in 1..Len(s) : IsStageId(t, s[i].stage_id)
    /\ \A i \in 1..Len(t) : IsStageId(s, t[i].stage_id)

\* the stage ids of the StageSubmitted events of log, as the field stage_id
\* of StageMetrics reads them
SubmittedIds(log) ==
    { AsInt(SubmittedId(log[k]))[1] : k \in { n \in 1..Len(log) :
                                               IsEvent(log[n], "SparkListenerStageSubmitted") } }

C28_OnlyStageSubmittedCreatesStages ==
    /\ [](/\ \A i \in 1..Len(locals.stages) :
                \E k \in 1..Len(Log) : IsSubmitOf(Log[k], locals.stages[i].stage_id)
          /\ \A k \in 1..Len(Log) :
                IsEvent(Log[k], "SparkListenerStageSubmitted")
                   => IsStageId(locals.stages, SubmittedId(Log[k])))
    /\ [](ResultOk => StageIds(ResultStages) = SubmittedIds(Log))
    /\ [][ /\ (/\ ConsumesEvent("SparkListenerStageCompleted")
               /\ ~IsStageId(locals.stages, SubmittedId(yielded'[Len(yielded')].value)))
                 => locals'.stages = locals.stages
           /\ (ConsumesEvent("SparkListenerStageCompleted") \/ ConsumesEvent("SparkListenerTaskEnd"))
                 => SameStageIds(locals'.stages, locals.stages) ]_vars

\* a result with one stage, from a log that also holds a StageCompleted and a
\* TaskEnd for a stage that was never submitted
C28_Witness ==
    /\ ResultOk
    /\ StageIds(ResultStages) = {1}
    /\ \E k \in 1..Len(Log) : IsCompletedOf(Log[k], 0)
    /\ \E k \in 1..Len(Log) : IsTaskEndOf(Log[k], 0)

(***************************************************************************)
(* C29.  In every SparkMetrics the parse returns, the stages and the tasks *)
(* are split in two: num_completed_stages + num_failed_stages = num_stages *)
(* = the length of the stage list, num_completed_tasks + num_failed_tasks  *)
(* = num_tasks, and the six counts are non-negative.                       *)
(***************************************************************************)
C29_CompletedFailedPartition ==
    ResultOk =>
      LET m == result.metrics
      IN  /\ m.num_completed_stages + m.num_failed_stages = m.num_stages
          /\ m.num_stages = Len(m.stages)
          /\ m.num_completed_tasks + m.num_failed_tasks = m.num_tasks
          /\ \A f \in { "num_stages", "num_completed_stages", "num_failed_stages",
                         "num_tasks", "num_completed_tasks", "num_failed_tasks" } :
                m[f] >= 0

\* a result with a failed stage and a stage that is neither failed nor
\* completed by an event, a failed task and a task that did not fail
C29_Witness ==
    /\ ResultOk
    /\ result.metrics.num_failed_stages >= 1
    /\ result.metrics.num_completed_stages >= 1
    /\ result.metrics.num_failed_tasks >= 1
    /\ result.metrics.num_completed_tasks >= 1
    /\ \E i \in 1..Len(ResultStages) :
          ResultStages[i].num_failed_tasks = 0 /\ ResultStages[i].completion_time_ms = None

(***************************************************************************)
(* C30.  When no stage id is named by more than RESERVOIR_SIZE TaskEnd     *)
(* events of the file, parse_eventlog(path, streaming=True) and            *)
(* parse_eventlog(path, streaming=False) have the same outcome: the same   *)
(* SparkMetrics, or both raise.  The code violates it: the legacy parser   *)
(* keeps every TaskEnd under its stage id whether or not the stage has     *)
(* been submitted, before or after, and counts it in num_tasks, while the  *)
(* streaming parser only counts the TaskEnd events that follow the last    *)
(* StageSubmitted of their stage.                                          *)
(***************************************************************************)
NoStageOverflows ==
    \A k \in 1..Len(Log) :
       IsEvent(Log[k], "SparkListenerTaskEnd") =>
          Len(TaskEndsOf(Log, PathGet(Log[k], <<"Stage ID">>))) <= RESERVOIR_SIZE

C30_StreamingEqualsLegacy ==
    (pc = "done" /\ NoStageOverflows) => legacyResult = result

====
